---- MODULE Spec2Model ----
(***************************************************************************)
(* A model of fw24's entity layer (BaseEntityService and the helpers       *)
(* around it): relation hydration (hydrateRecords / hydrateSingleRelation) *)
(* as a state machine of one top-level hydration, and the access-pattern   *)
(* resolver (makeEntityAccessPatternsSchema) as a function of the schema.  *)
(***************************************************************************)
EXTENDS Integers, Sequences, FiniteSets, TLC

\* Longest list of root records a hydration is run over.
MaxRecords == 3

(***************************************************************************)
(* JavaScript values.  Every value is a record tagged by k; scalars keep   *)
(* their text in v, so the number 1 and the string "1" stay distinct.      *)
(***************************************************************************)
Undef == [k |-> "undef"]

Null == [k |-> "null"]

Str(s) == [k |-> "str", v |-> s]

Num(s) == [k |-> "num", v |-> s]

\* true and false, as the text "true" / "false"
Bool(b) == [k |-> "bool", v |-> IF b THEN "true" ELSE "false"]

\* An object: f maps its own property names to values.
Obj(f) == [k |-> "obj", f |-> f]

\* An array: xs is the sequence of its elements.
Arr(xs) == [k |-> "arr", xs |-> xs]

EmptyObj == Obj([a \in {} |-> Undef])

\* !!x
Truthy(x) ==
    CASE x.k = "undef" -> FALSE
      [] x.k = "null" -> FALSE
      [] x.k = "str" -> x.v # ""
      [] x.k = "text" -> x.chars # <<>>
      [] x.k = "num" -> x.v # "0"
      [] x.k = "bool" -> x.v = "true"
      [] OTHER -> TRUE

isArray(x) == x.k = "arr"

isObject(x) == x.k = "obj"

hasOwnProperty(o, key) == key \in DOMAIN o.f

\* The value at a (flat) path of an object, undefined when the path is missing.
getValueByPath(o, path) == IF hasOwnProperty(o, path) THEN o.f[path] ELSE Undef

(***************************************************************************)
(* Sequence helpers, after the Array methods the code uses.                *)
(***************************************************************************)
RECURSIVE Flatten(_)
Flatten(ss) == IF ss = <<>> THEN <<>> ELSE Head(ss) \o Flatten(Tail(ss))

Includes(xs, x) == \E i \in 1..Len(xs) : xs[i] = x

Range(xs) == {xs[i] : i \in 1..Len(xs)}

\* All sequences over S of length at most n.
SeqsUpTo(S, n) == UNION {[1..m -> S] : m \in 0..n}

(***************************************************************************)
(* Identifier mappings.  A JavaScript object built key by key is kept as   *)
(* the sequence of its <<key, value>> entries in insertion order, which is *)
(* the order JSON.stringify writes and Object.keys lists.                  *)
(***************************************************************************)
KeysOf(entries) == [i \in 1..Len(entries) |-> entries[i][1]]

HasKey(entries, key) == \E i \in 1..Len(entries) : entries[i][1] = key

\* acc[target] = value
SetEntry(entries, key, value) ==
    IF HasKey(entries, key)
    THEN [i \in 1..Len(entries) |->
            IF entries[i][1] = key THEN <<key, value>> ELSE entries[i]]
    ELSE Append(entries, <<key, value>>)

\* Two identifier mappings are structurally equal: same keys, same values.
SameMapping(a, b) == Range(a) = Range(b)

\* identifierMappings.reduce(...) over one raw relation value.
RECURSIVE ReduceIdentifiers(_, _, _)
ReduceIdentifiers(mappings, identifiersData, acc) ==
    IF mappings = <<>> THEN acc
    ELSE LET m == Head(mappings)
             identifierVal == IF isObject(identifiersData)
                              THEN getValueByPath(identifiersData, m.source)
                              ELSE identifiersData
         IN ReduceIdentifiers(Tail(mappings), identifiersData,
                IF Truthy(identifierVal) THEN SetEntry(acc, m.target, identifierVal)
                ELSE acc)

\* The identifiersBatch of one root record: falsy raw values are dropped, every
\* other raw value yields one identifier mapping (possibly an empty one).
RECURSIVE MapIdentifiers(_, _)
MapIdentifiers(identifiersDataBatch, mappings) ==
    IF identifiersDataBatch = <<>> THEN <<>>
    ELSE (IF Truthy(Head(identifiersDataBatch))
          THEN <<ReduceIdentifiers(mappings, Head(identifiersDataBatch), <<>>)>>
          ELSE <<>>)
         \o MapIdentifiers(Tail(identifiersDataBatch), mappings)

IdentifiersBatch(raw, mappings) ==
    MapIdentifiers(IF isArray(raw) THEN raw.xs ELSE <<raw>>, mappings)

\* JSON.stringify of an identifier mapping: its entries in insertion order, a
\* string value written in quotes and a number bare.
JSONstringify(entries) ==
    [i \in 1..Len(entries) |->
        [key |-> entries[i][1], quoted |-> entries[i][2].k = "str",
         text |-> entries[i][2].v]]

JSONparse(tokens) ==
    [i \in 1..Len(tokens) |->
        <<tokens[i].key,
          IF tokens[i].quoted THEN Str(tokens[i].text) ELSE Num(tokens[i].text)>>]

\* Array.from(new Set(xs)): first occurrences, in order.
RECURSIVE ArrayFromSet(_, _)
ArrayFromSet(xs, seen) ==
    IF xs = <<>> THEN <<>>
    ELSE IF Head(xs) \in seen THEN ArrayFromSet(Tail(xs), seen)
    ELSE <<Head(xs)>> \o ArrayFromSet(Tail(xs), seen \cup {Head(xs)})

\* A hydrator that sends the collected identifiers as they are.
BatchWithoutDedupe(relationIdentifiersBatch) == relationIdentifiersBatch

UniqueRelationIdentifiersBatch(relationIdentifiersBatch) ==
    LET strings == [i \in 1..Len(relationIdentifiersBatch) |->
                        JSONstringify(relationIdentifiersBatch[i])]
        unique == ArrayFromSet(strings, {})
    IN [i \in 1..Len(unique) |-> JSONparse(unique[i])]

(***************************************************************************)
(* Selections (options.attributes): not given, a list of attribute names,  *)
(* or a mapping name -> true whose keys are kept in insertion order.       *)
(***************************************************************************)
SelList(xs) == [k |-> "list", xs |-> xs]

SelMap(keys) == [k |-> "map", keys |-> keys]

\* "ensure all the identifier attributes are part of the selections": the
\* forEach over the keys of the FIRST identifier mapping of the batch.
RECURSIVE EnsureSelections(_, _)
EnsureSelections(attributes, keys) ==
    IF keys = <<>> THEN attributes
    ELSE LET key == Head(keys)
             next == IF attributes.k = "list" /\ ~Includes(attributes.xs, key)
                     THEN SelList(Append(attributes.xs, key))
                     ELSE IF attributes.k = "map" /\ ~Includes(attributes.keys, key)
                     THEN SelMap(Append(attributes.keys, key))
                     ELSE attributes
         IN EnsureSelections(next, Tail(keys))

(***************************************************************************)
(* The world around one hydration: the related entities' stored records,   *)
(* the relation metadata of the root schema, and the service registry.     *)
(***************************************************************************)
RelNames == {"customer", "seller"}

RootAttrs == {"id", "customerId", "customer", "seller"}

Mapping(source, target) == [source |-> source, target |-> target]

NoMeta == [k |-> "none"]

\* relation metadata with no identifiers: they default to the related primary id
RelationDefault == [k |-> "relation", identifiers |-> Undef]

RelationOne(m) == [k |-> "relation", identifiers |-> [k |-> "one", m |-> m]]

RelationMany(ms) == [k |-> "relation", identifiers |-> [k |-> "many", ms |-> ms]]

Store(entityName) ==
    IF entityName = "Customer"
    THEN << Obj([id |-> Str("c1"), name |-> Str("Ann"), region |-> Str("eu")]),
            Obj([id |-> Str("c2"), name |-> Str("Bob"), region |-> Str("us")]) >>
    ELSE IF entityName = "Seller"
    THEN << Obj([id |-> Str("s1"), name |-> Str("Sam")]) >>
    ELSE << >>

\* Every related service's primary identifier attribute is `id`.
getEntityPrimaryIdPropertyName(entityName) == "id"

Matches(relatedEntityData, identifiers) ==
    \A i \in 1..Len(identifiers) :
        /\ hasOwnProperty(relatedEntityData, identifiers[i][1])
        /\ relatedEntityData.f[identifiers[i][1]] = identifiers[i][2]

PickKeys(record, attrs) ==
    Obj([a \in (DOMAIN record.f) \cap Range(attrs) |-> record.f[a]])

\* The persistence collaborator: the stored records some identifier of the batch
\* names, each cut to the requested attributes.
getEntity(entityName, id, attributes) ==
    LET hit(rec) == \E i \in 1..Len(id) : Matches(rec, id[i])
        found == SelectSeq(Store(entityName), hit)
    IN [i \in 1..Len(found) |-> PickKeys(found[i], attributes)]

(***************************************************************************)
(* State of one top-level hydration.                                       *)
(***************************************************************************)
VARIABLES
    cfg,        \* the registry, the root schema's relation metadata, the selected relations
    options,    \* per relation attribute: the HydrateOptionForRelation object
    records,    \* rootEntityRecords, as they are now
    original,   \* rootEntityRecords as handed to hydrateRecords
    hpc,        \* hydrateRecords: "off" | "idle" | "running" | "done" | "failed"
    rpc,        \* per relation: "idle" | "threw" | "warned" | "fetching" | "merged" | "rejected"
    err,        \* per relation: the error it ended with, "" when none
    batch,      \* per relation: identifiers passed to the related service's get
    selections, \* per relation: selections passed to the related service's get
    dict,       \* per relation: identifiersToSourceEntityDictionary, by root index
    calls,      \* per relation: number of calls of the related service's get
    completed,  \* the relations whose fetch has settled, in the order they settled
    caller,     \* the get/list/query awaiting hydrateRecords: "awaiting" | "returned" | "rejected"
    schema,     \* the entity schema a schema-derivation run works on
    apc,        \* makeEntityAccessPatternsSchema: "off" | "idle" | "made"
    accessPatterns, \* the Map it returned
    input,      \* extractEntityIdentifiers: its input argument
    context,    \* extractEntityIdentifiers: its context argument
    xpc,        \* extractEntityIdentifiers: "off" | "idle" | "returned" | "threw"
    xerr,       \* the error it threw, "" when none
    xout,       \* the value it returned, undefined before it returns
    warned,     \* the logger's warnings: <<input index, attribute name>>, in order
    entityOpsDefaultIoSchema,   \* the service's cached ops schema, undefined until built
    built,      \* number of runs of makeOpsDefaultIOSchema for the service
    opsLog,     \* the getter calls made on the service: which, and what each returned
    given,      \* list: the query as the caller passed it
    query,      \* list: the caller's query object, as list has changed it so far
    lpc,        \* list: "off" | "idle" | "listing" | "hydrating" | "returned" | "rejected"
    passed,     \* list/query: the query as listEntity/queryEntity received it
    listed,     \* list/query: {...entities, query}, what it returns
    called,     \* which of the two was called: "none" | "list" | "query"
    selectAttributes,   \* query: its local selectAttributes, undefined in list
    getOptions, \* get: its options argument, {identifiers, selections}
    gpc,        \* get: "off" | "idle" | "getting" | "hydrating" | "returned" | "rejected"
    formattedSelections,    \* get: its local formattedSelections
    asked,      \* get: the attributes getEntity was asked for
    entity,     \* get: entity?.data, what getEntity resolved with and get returns
    event,      \* mail handler: event.Records
    mpc,        \* mail handler: "off" | "idle" | "sending" | "returned"
    idx,        \* mail handler: the record whose send it awaits, 0 when none
    batchItemFailures,  \* mail handler: the itemIdentifiers pushed so far
    attempted,  \* mail handler: the records it has begun to process, in order
    sends,      \* the commands the SES client was sent and how each settled
    response,   \* mail handler: sqsBatchResponse.batchItemFailures, undefined before it returns
    chain,      \* the constructs of app.use(a).use(b)..., in order
    modules,    \* fw24.getModules(): the queues directory of each module
    used,       \* number of use calls of the chain that have returned
    cst,        \* per construct: where its construct() is, and the modules it has yet to load
    trace,      \* <<"begin" | "end", i>>: construct() of the i-th construct began, completed
    useReturned \* what each use call returned

hvars == <<cfg, options, records, original, hpc, rpc, err, batch, selections, dict, calls, completed, caller>>

svars == <<schema, apc, accessPatterns>>

evars == <<input, context, xpc, xerr, xout, warned>>

ovars == <<entityOpsDefaultIoSchema, built, opsLog>>

lvars == <<given, query, lpc, passed, listed, called, selectAttributes>>

gvars == <<getOptions, gpc, formattedSelections, asked, entity>>

mvars == <<event, mpc, idx, batchItemFailures, attempted, sends, response>>

avars == <<chain, modules, used, cst, trace, useReturned>>

zvars == <<mvars, avars>>

xvars == <<evars, ovars, lvars, gvars, zvars>>

vars == <<hvars, svars, xvars>>

\* No identifier extraction is under way.
ExtractOff ==
    /\ input = Undef
    /\ context = [forAccessPattern |-> Undef]
    /\ xpc = "off"
    /\ xerr = ""
    /\ xout = Undef
    /\ warned = <<>>

\* A service whose ops schema has not been asked for.
OpsOff ==
    /\ entityOpsDefaultIoSchema = Undef
    /\ built = 0
    /\ opsLog = <<>>

\* No list call is under way.
ListOff ==
    /\ given = Undef
    /\ query = Undef
    /\ lpc = "off"
    /\ passed = Undef
    /\ listed = Undef
    /\ called = "none"
    /\ selectAttributes = Undef

\* No get is under way.
GetOff ==
    /\ getOptions = Undef
    /\ gpc = "off"
    /\ formattedSelections = Undef
    /\ asked = <<>>
    /\ entity = Undef

\* No mail handler invocation is under way.
MailOff ==
    /\ event = <<>>
    /\ mpc = "off"
    /\ idx = 0
    /\ batchItemFailures = <<>>
    /\ attempted = <<>>
    /\ sends = <<>>
    /\ response = Undef

\* No application is being set up.
AppOff ==
    /\ chain = <<>>
    /\ modules = <<>>
    /\ used = 0
    /\ cst = <<>>
    /\ trace = <<>>
    /\ useReturned = <<>>

OutsideOff == MailOff /\ AppOff

ServiceOff == ExtractOff /\ OpsOff /\ ListOff /\ GetOff /\ OutsideOff

\* defaultMetaContainer.getEntityServiceByEntityName: is a service registered?
getEntityServiceByEntityName(entityName) == entityName \in cfg.registry

\* A hydrator that never checks the registry's answer.
ServiceCheckSkipped(relatedEntityService) == FALSE

\* if(!relatedEntityService) throw ...
ServiceCheckFails(relatedEntityService) == ~relatedEntityService

\* The related service's getDefaultSerializationAttributeNames().
getDefaultSerializationAttributeNames(entityName) == cfg.defaults[entityName]

\* The related service's get up to its call of getEntity: the selection it
\* resolves (the default one when none is given) as top-level attribute names.
FormattedSelections(entityName, sel) ==
    IF sel.k = "undef" THEN getDefaultSerializationAttributeNames(entityName)
    ELSE IF sel.k = "list" THEN sel.xs
    ELSE sel.keys

\* relatedEntityService.get({identifiers, selections}): entity.data
RelatedGet(entityName, identifiers, sel) ==
    getEntity(entityName, identifiers, FormattedSelections(entityName, sel))

IdentifierMappings(ids, relationPrimaryIdentifierName) ==
    IF ids.k = "undef"
    THEN <<Mapping(relationPrimaryIdentifierName, relationPrimaryIdentifierName)>>
    ELSE IF ids.k = "many" THEN ids.ms
    ELSE <<ids.m>>

Outcome(out, e, b, attributes, d) ==
    [out |-> out, err |-> e, batch |-> b, attributes |-> attributes, dict |-> d]

\* hydrateSingleRelation up to its await: what it does before the fetch is out.
SyncPhase(rootEntityRecords, relatedAttributeName, opts) ==
    LET relatedEntityService == getEntityServiceByEntityName(opts.entityName)
        relationAttributeMetadata == cfg.relMeta[relatedAttributeName]
    IN IF ServiceCheckFails(relatedEntityService)
       THEN Outcome("threw", "NoService", <<>>, opts.attributes, <<>>)
       ELSE IF relationAttributeMetadata.k = "none"
       THEN Outcome("warned", "", <<>>, opts.attributes, <<>>)
       ELSE
         LET identifierMappings ==
                 IdentifierMappings(relationAttributeMetadata.identifiers,
                                    getEntityPrimaryIdPropertyName(opts.entityName))
             dictionary ==
                 [i \in 1..Len(rootEntityRecords) |->
                     IdentifiersBatch(rootEntityRecords[i][relatedAttributeName],
                                      identifierMappings)]
             unique == UniqueRelationIdentifiersBatch(Flatten(dictionary))
         IN IF unique = <<>>
            \* Object.keys(uniqueRelationIdentifiersBatch[0]) of undefined
            THEN Outcome("threw", "TypeError", <<>>, opts.attributes, dictionary)
            ELSE Outcome("fetching", "", unique,
                         EnsureSelections(opts.attributes, KeysOf(unique[1])),
                         dictionary)

\* A merge that takes the first fetched record whatever the identifiers are.
FindIgnoringIdentifiers(relatedEntities, identifiers) ==
    IF relatedEntities = <<>> THEN Undef ELSE relatedEntities[1]

\* relatedEntities.find(...): the first related record carrying every entry of
\* the identifier mapping, undefined when there is none.
Find(relatedEntities, identifiers) ==
    LET hits == {j \in 1..Len(relatedEntities) : Matches(relatedEntities[j], identifiers)}
    IN IF hits = {} THEN Undef
       ELSE relatedEntities[CHOOSE j \in hits : \A j2 \in hits : j <= j2]

\* What one root record's relation attribute is set to.
Assigned(isToManyRelation, relatedRecords) ==
    IF ~isToManyRelation /\ Len(relatedRecords) > 0
    THEN relatedRecords[1]
    ELSE Arr(relatedRecords)

\* identifiersToSourceEntityDictionary.forEach(...): the merge.
MergeRelatedEntities(recs, relatedAttributeName, dictionary, relatedEntities) ==
    [i \in 1..Len(recs) |->
        LET relatedRecords ==
                [j \in 1..Len(dictionary[i]) |-> Find(relatedEntities, dictionary[i][j])]
        IN [recs[i] EXCEPT ![relatedAttributeName] =
                Assigned(isArray(recs[i][relatedAttributeName]), relatedRecords)]]

(***************************************************************************)
(* The hydrations explored: a configuration (registry, relation metadata,  *)
(* selected relations with their options, related defaults) and the root   *)
(* record shapes it is run over.                                           *)
(***************************************************************************)
Root(customerId, customer, seller) ==
    [id |-> Undef, customerId |-> customerId, customer |-> customer, seller |-> seller]

Opts(entityName, attributes) == [entityName |-> entityName, attributes |-> attributes]

NoOpts == Opts("", Undef)

Config(registry, customerMeta, relations, customerOpts, sellerOpts, sellerDefaults, shapes) ==
    [registry |-> registry,
     relMeta |-> [r \in RelNames |-> IF r = "customer" THEN customerMeta ELSE RelationDefault],
     relations |-> relations,
     options |-> [r \in RelNames |-> IF r = "customer" THEN customerOpts ELSE sellerOpts],
     defaults |-> [e \in {"Customer", "Seller", ""} |->
                     IF e = "Customer" THEN <<"id", "name", "region">>
                     ELSE IF e = "Seller" THEN sellerDefaults ELSE <<>>],
     shapes |-> shapes]

Both == {"Customer", "Seller"}

CustomerIdObj(c) == Obj([customerId |-> Str(c)])

\* Order.customer -> Customer with identifier mapping customerId -> id.
OrderShapes ==
    { Root(Str("c1"), Undef, Undef), Root(Str("c2"), Undef, Undef),
      Root(Undef, CustomerIdObj("c1"), Undef), Root(Undef, CustomerIdObj("c2"), Undef),
      Root(Undef, Null, Undef) }

OrderConfig ==
    Config(Both, RelationOne(Mapping("customerId", "id")), <<"customer">>,
           Opts("Customer", SelList(<<"name">>)), NoOpts, <<"id", "name">>, OrderShapes)

\* The relation attribute holds the related id itself, or a list of ids.
ScalarShapes ==
    { Root(Undef, Str("c1"), Undef), Root(Undef, Str("c3"), Undef),
      Root(Undef, Num("0"), Undef),
      Root(Undef, Arr(<<Str("c1"), Str("c1"), Str("c2")>>), Undef),
      Root(Undef, Arr(<<>>), Undef) }

ScalarConfig ==
    Config(Both, RelationDefault, <<"customer">>,
           Opts("Customer", SelMap(<<"name">>)), NoOpts, <<"id", "name">>, ScalarShapes)

\* Two relation attributes hydrated by one call.
TwoShapes ==
    { Root(Undef, Str("c1"), Str("s1")), Root(Undef, Null, Str("s1")),
      Root(Undef, Str("c2"), Undef), Root(Undef, Arr(<<Str("c2"), Str("c1")>>), Str("s2")) }

TwoConfig(registry, sellerDefaults) ==
    Config(registry, RelationDefault, <<"customer", "seller">>,
           Opts("Customer", SelList(<<"name">>)), Opts("Seller", Undef),
           sellerDefaults, TwoShapes)

\* A selected attribute the root schema declares no relation for.
NoMetaShapes == { Root(Undef, Str("c1"), Undef), Root(Undef, CustomerIdObj("c1"), Undef) }

NoMetaConfig(registry, entityName) ==
    Config(registry, NoMeta, <<"customer">>,
           Opts(entityName, SelList(<<"name">>)), NoOpts, <<"id", "name">>, NoMetaShapes)

\* Two identifier mappings; some raw values lack one or both source values.
MultiShapes ==
    { Root(Undef, Obj([customerId |-> Str("c1"), region |-> Str("eu")]), Undef),
      Root(Undef, Obj([customerId |-> Str(""), region |-> Str("eu")]), Undef),
      Root(Undef, Obj([customerId |-> Str("c2"), region |-> Str("us")]), Undef),
      Root(Undef, Obj([name |-> Str("x")]), Undef) }

MultiConfig ==
    Config(Both,
           RelationMany(<<Mapping("customerId", "id"), Mapping("region", "region")>>),
           <<"customer">>, Opts("Customer", SelList(<<"name">>)), NoOpts,
           <<"id", "name">>, MultiShapes)

Configs ==
    { OrderConfig, ScalarConfig, MultiConfig,
      TwoConfig(Both, <<"id", "name">>), TwoConfig(Both, <<"name">>),
      TwoConfig({"Customer"}, <<"id", "name">>), TwoConfig({}, <<"id", "name">>),
      NoMetaConfig(Both, "Customer"), NoMetaConfig({}, "Customer"),
      NoMetaConfig(Both, "") }

NoSchema == [attributes |-> <<>>, indexes |-> <<>>]

Selected == Range(cfg.relations)

PerRelation(x) == [r \in RelNames |-> x]

Init ==
    /\ cfg \in Configs
    /\ \E shapes \in SeqsUpTo(cfg.shapes, MaxRecords) :
         records = [i \in 1..Len(shapes) |-> [shapes[i] EXCEPT !.id = Num(ToString(i))]]
    /\ original = records
    /\ options = cfg.options
    /\ hpc = "idle"
    /\ rpc = PerRelation("idle")
    /\ err = PerRelation("")
    /\ batch = PerRelation(<<>>)
    /\ selections = PerRelation(Undef)
    /\ dict = PerRelation(<<>>)
    /\ calls = PerRelation(0)
    /\ completed = <<>>
    /\ caller = "awaiting"
    /\ schema = NoSchema
    /\ apc = "off"
    /\ accessPatterns = <<>>
    /\ ServiceOff

\* A hydrator that awaits each relation before entering the next one.
RelationsOneByOne ==
    IF \E r \in RelNames : rpc[r] = "fetching" THEN {}
    ELSE LET waiting == {i \in 1..Len(cfg.relations) : rpc[cfg.relations[i]] = "idle"}
         IN IF waiting = {} THEN {}
            ELSE {cfg.relations[CHOOSE i \in waiting : \A j \in waiting : i <= j]}

\* relations.map(async ...): the relations whose hydrateSingleRelation is entered
\* now.  Each runs to its await before the map goes on, so the call of
\* hydrateRecords enters them all.
RelationsToStart == IF hpc = "idle" THEN Selected ELSE {}

\* hydrateRecords is called: every selected relation runs up to its fetch.
HydrateRecords ==
    /\ hpc \in {"idle", "running"}
    /\ RelationsToStart # {}
    /\ LET S == RelationsToStart
           ph == [r \in S |-> SyncPhase(records, r, options[r])]
       IN /\ rpc' = [r \in RelNames |-> IF r \in S THEN ph[r].out ELSE rpc[r]]
          /\ err' = [r \in RelNames |-> IF r \in S THEN ph[r].err ELSE err[r]]
          /\ batch' = [r \in RelNames |-> IF r \in S THEN ph[r].batch ELSE batch[r]]
          /\ dict' = [r \in RelNames |-> IF r \in S THEN ph[r].dict ELSE dict[r]]
          /\ options' = [r \in RelNames |->
                            IF r \in S THEN [options[r] EXCEPT !.attributes = ph[r].attributes]
                            ELSE options[r]]
          /\ selections' = [r \in RelNames |->
                            IF r \in S /\ ph[r].out = "fetching" THEN ph[r].attributes
                            ELSE selections[r]]
          /\ calls' = [r \in RelNames |->
                            IF r \in S /\ ph[r].out = "fetching" THEN calls[r] + 1
                            ELSE calls[r]]
    /\ hpc' = "running"
    /\ UNCHANGED <<cfg, records, original, completed, caller, svars, xvars>>

\* The related service's get resolves; the relation's merge runs.
FetchReturns(r) ==
    /\ rpc[r] = "fetching"
    /\ records' = MergeRelatedEntities(records, r, dict[r],
                        RelatedGet(options[r].entityName, batch[r], selections[r]))
    /\ rpc' = [rpc EXCEPT ![r] = "merged"]
    /\ completed' = Append(completed, r)
    /\ UNCHANGED <<cfg, options, original, hpc, err, batch, selections, dict, calls, caller, svars, xvars>>

\* The related service's get rejects (a persistence error, passed through).
FetchFails(r) ==
    /\ rpc[r] = "fetching"
    /\ rpc' = [rpc EXCEPT ![r] = "rejected"]
    /\ err' = [err EXCEPT ![r] = "Upstream"]
    /\ completed' = Append(completed, r)
    /\ UNCHANGED <<cfg, options, records, original, hpc, batch, selections, dict, calls, caller, svars, xvars>>

\* Promise.all resolves: every relation's hydrateSingleRelation has returned.
HydrateResolves ==
    /\ hpc = "running"
    /\ \A r \in Selected : rpc[r] \in {"merged", "warned"}
    /\ hpc' = "done"
    /\ UNCHANGED <<cfg, options, records, original, rpc, err, batch, selections, dict, calls, completed, caller, svars, xvars>>

\* Promise.all rejects as soon as one relation's hydrateSingleRelation has thrown.
HydrateRejects ==
    /\ hpc = "running"
    /\ \E r \in Selected : rpc[r] \in {"threw", "rejected"}
    /\ hpc' = "failed"
    /\ UNCHANGED <<cfg, options, records, original, rpc, err, batch, selections, dict, calls, completed, caller, svars, xvars>>

\* get/list/query go on after `await this.hydrateRecords(...)` and return.
CallerReturns ==
    /\ caller = "awaiting"
    /\ hpc = "done"
    /\ caller' = "returned"
    /\ UNCHANGED <<cfg, options, records, original, hpc, rpc, err, batch, selections, dict, calls, completed, svars, xvars>>

\* No try/catch around the await: the rejection is the caller's.
CallerRejects ==
    /\ caller = "awaiting"
    /\ hpc = "failed"
    /\ caller' = "rejected"
    /\ UNCHANGED <<cfg, options, records, original, hpc, rpc, err, batch, selections, dict, calls, completed, svars, xvars>>

Next ==
    \/ HydrateRecords
    \/ \E r \in RelNames : FetchReturns(r)
    \/ \E r \in RelNames : FetchFails(r)
    \/ HydrateResolves
    \/ HydrateRejects
    \/ CallerReturns
    \/ CallerRejects

Spec == Init /\ [][Next]_vars

(***************************************************************************)
(* Entity schemas and the access-pattern resolver.  An attribute is the    *)
(* function from its own property names to their values; a Map is the      *)
(* sequence of its <<key, value>> entries in insertion order.  The schemas *)
(* explored hold scalar attributes only (no map or list-of-map ones).      *)
(***************************************************************************)
\* Most indexes a schema declares.
MaxIndexes == 2

Prop(att, p) == IF p \in DOMAIN att THEN att[p] ELSE Undef

\* {...att, required: true}; att may be undefined (no such attribute declared)
WithRequired(att) ==
    LET own == IF att = Undef THEN {} ELSE DOMAIN att
    IN [p \in own \cup {"required"} |-> IF p = "required" THEN Bool(TRUE) ELSE att[p]]

\* utils.toHumanReadableName
toHumanReadableName(attId) == [k |-> "human", v |-> attId]

\* The properties entityAttributeToIOSchemaAttribute takes out of the attribute
\* before spreading the rest into its result.
Destructured ==
    {"name", "validations", "required", "relation", "default", "get", "set", "watch",
     "items", "type", "properties", "addNewOption"}

FlagNames ==
    {"isVisible", "isEditable", "isListable", "isCreatable", "isFilterable", "isSearchable"}

\* relatedEntity ? {...restRelation, entity: relatedEntity?.model?.entity} : undefined
RelationMeta(relation) ==
    IF ~Truthy(relation) THEN Undef
    ELSE IF ~Truthy(relation.entity) THEN Undef
    ELSE [relation EXCEPT !.entity = relation.entity.model.entity]

entityAttributeToIOSchemaAttribute(attId, att) ==
    LET rest == (DOMAIN att) \ Destructured
        keys == rest \cup FlagNames
                  \cup {"type", "id", "name", "relation", "defaultValue", "validations"}
                  \cup (IF Truthy(Prop(att, "addNewOption")) THEN {"addNewOption"} ELSE {})
    IN [p \in keys |->
          CASE p = "type" -> Prop(att, "type")
            [] p = "id" -> Str(attId)
            [] p = "name" -> IF Truthy(Prop(att, "name")) THEN att["name"]
                             ELSE toHumanReadableName(attId)
            [] p = "relation" -> RelationMeta(Prop(att, "relation"))
            [] p = "defaultValue" -> Prop(att, "default")
            \* validations || required ? ['required'] : []
            [] p = "validations" ->
                 IF Truthy(Prop(att, "validations")) \/ Truthy(Prop(att, "required"))
                 THEN Arr(<<Str("required")>>) ELSE Arr(<<>>)
            \* !att.hasOwnProperty(flag) || att[flag]
            [] p \in FlagNames -> IF p \notin DOMAIN att THEN Bool(TRUE) ELSE att[p]
            [] OTHER -> att[p]]

MapOf(entries) == [k |-> "map", entries |-> entries]

MapHas(map, key) == HasKey(map.entries, key)

MapGet(map, key) ==
    IF MapHas(map, key)
    THEN map.entries[CHOOSE i \in 1..Len(map.entries) : map.entries[i][1] = key][2]
    ELSE Undef

MapSet(map, key, value) == MapOf(SetEntry(map.entries, key, value))

\* schema.attributes[attName]
SchemaAttribute(sch, attName) ==
    LET hits == {i \in 1..Len(sch.attributes) : sch.attributes[i][1] = attName}
    IN IF hits = {} THEN Undef ELSE sch.attributes[CHOOSE i \in hits : TRUE][2]

\* One of the two loops over an index's composite attributes.
RECURSIVE SetComposite(_, _, _)
SetComposite(indexAttributes, composite, sch) ==
    IF composite = <<>> THEN indexAttributes
    ELSE SetComposite(
            MapSet(indexAttributes, Head(composite),
                   entityAttributeToIOSchemaAttribute(Head(composite),
                        WithRequired(SchemaAttribute(sch, Head(composite))))),
            Tail(composite), sch)

\* schema.indexes[indexName].sk?.composite ?? []
SkComposite(index) == IF index.sk = Undef THEN <<>> ELSE index.sk.composite

IndexAttributes(index, sch) ==
    SetComposite(SetComposite(MapOf(<<>>), index.pk, sch), SkComposite(index), sch)

RECURSIVE SetIndexes(_, _, _)
SetIndexes(patterns, indexes, sch) ==
    IF indexes = <<>> THEN patterns
    ELSE SetIndexes(MapSet(patterns, Head(indexes).name, IndexAttributes(Head(indexes), sch)),
                    Tail(indexes), sch)

makeEntityAccessPatternsSchema(sch) ==
    LET patterns == SetIndexes(MapOf(<<>>), sch.indexes, sch)
    IN IF ~MapHas(patterns, "primary")
       \* accessPatterns.values().next().value: undefined for an empty Map
       THEN MapSet(patterns, "primary",
                   IF patterns.entries = <<>> THEN Undef ELSE patterns.entries[1][2])
       ELSE patterns

(***************************************************************************)
(* The schemas explored.                                                   *)
(***************************************************************************)
SchemaAttributes ==
    << <<"entityId", [type |-> Str("string"), isIdentifier |-> Bool(TRUE)]>>,
       <<"tenantId", [type |-> Str("string"), required |-> Bool(FALSE), isVisible |-> Bool(FALSE)]>>,
       <<"name", [type |-> Str("string"), required |-> Bool(TRUE), name |-> Str("Full name")]>> >>

Sk(composite) == [k |-> "sk", composite |-> composite]

Index(name, pk, sk) == [name |-> name, pk |-> pk, sk |-> sk]

IndexNames == {"primary", "byTenant", "byName"}

IndexShapes ==
    { Index(n, pk, sk) :
        n \in IndexNames,
        pk \in { <<"entityId">>, <<"tenantId", "entityId">>, <<"name">> },
        sk \in { Undef, Sk(<<>>), Sk(<<"name">>), Sk(<<"tenantId", "name">>) } }

\* Index names are the keys of schema.indexes: no two indexes share one.
Schemas ==
    { [attributes |-> SchemaAttributes, indexes |-> ixs] :
        ixs \in {s \in SeqsUpTo(IndexShapes, MaxIndexes) :
                    \A i, j \in 1..Len(s) : s[i].name = s[j].name => i = j} }

InitAccess ==
    /\ schema \in Schemas
    /\ apc = "idle"
    /\ accessPatterns = <<>>
    /\ cfg = OrderConfig
    /\ records = <<>>
    /\ original = <<>>
    /\ options = cfg.options
    /\ hpc = "off"
    /\ rpc = PerRelation("idle")
    /\ err = PerRelation("")
    /\ batch = PerRelation(<<>>)
    /\ selections = PerRelation(Undef)
    /\ dict = PerRelation(<<>>)
    /\ calls = PerRelation(0)
    /\ completed = <<>>
    /\ caller = "awaiting"
    /\ ServiceOff

\* makeEntityAccessPatternsSchema(schema) is called.
MakeAccessPatterns ==
    /\ apc = "idle"
    /\ accessPatterns' = makeEntityAccessPatternsSchema(schema)
    /\ apc' = "made"
    /\ UNCHANGED <<hvars, schema, xvars>>

NextAccess == MakeAccessPatterns

SpecAccess == InitAccess /\ [][NextAccess]_vars

(***************************************************************************)
(* Identifier extraction: extractEntityIdentifiers(input, context) of a    *)
(* service over one schema.                                                *)
(***************************************************************************)
\* Most records in one batch input.
MaxInputs == 2

\* No hydration is under way.
HydrationOff ==
    /\ cfg = OrderConfig
    /\ records = <<>>
    /\ original = <<>>
    /\ options = cfg.options
    /\ hpc = "off"
    /\ rpc = PerRelation("idle")
    /\ err = PerRelation("")
    /\ batch = PerRelation(<<>>)
    /\ selections = PerRelation(Undef)
    /\ dict = PerRelation(<<>>)
    /\ calls = PerRelation(0)
    /\ completed = <<>>
    /\ caller = "awaiting"

\* getEntityPrimaryIdPropertyName() of the service itself: the first declared
\* attribute with a truthy isIdentifier, undefined when there is none.
PrimaryIdPropertyName(sch) ==
    LET hits == {i \in 1..Len(sch.attributes) :
                    Truthy(Prop(sch.attributes[i][2], "isIdentifier"))}
    IN IF hits = {} THEN Undef
       ELSE Str(sch.attributes[CHOOSE i \in hits : \A j \in hits : i <= j][1])

\* An input the guard lets through whatever it is.
InputAccepted(in) == FALSE

\* if(!input || typeof input !== 'object') throw ...
InputRejected(in) == ~Truthy(in) \/ in.k \notin {"obj", "arr"}

\* Every access pattern is in scope, whatever the context names.
AlwaysInScope(ctx, accessPatternName) == TRUE

\* !context.forAccessPattern || accessPatternName == context.forAccessPattern
InScope(ctx, accessPatternName) ==
    \/ ~Truthy(ctx.forAccessPattern)
    \/ Str(accessPatternName) = ctx.forAccessPattern

\* The {name, required} objects one access pattern adds to identifierAttributes.
PatternAttributes(accessPatternAttributes) ==
    [j \in 1..Len(accessPatternAttributes.entries) |->
        LET att == accessPatternAttributes.entries[j][2]
        IN [name |-> att["id"].v, required |-> Prop(att, "required") = Bool(TRUE)]]

\* The access patterns the loop goes into.
PatternsInScope(patterns, ctx) ==
    SelectSeq(patterns.entries, LAMBDA e : InScope(ctx, e[1]))

\* The identifierAttributes Set, in insertion order.  Each attribute is a fresh
\* object, so an attribute named by two access patterns is in it twice.
IdentifierAttributes(patterns, ctx) ==
    LET scoped == PatternsInScope(patterns, ctx)
    IN Flatten([i \in 1..Len(scoped) |-> PatternAttributes(scoped[i][2])])

\* `for(const [, att] of accessPatternAttributes)` over undefined: a TypeError.
IterationThrows(patterns, ctx) ==
    LET scoped == PatternsInScope(patterns, ctx)
    IN \E i \in 1..Len(scoped) : scoped[i][2] = Undef

\* An extraction that never falls back to the generic id field.
NoFallback(rec, attName, primaryAttName) == FALSE

\* attName == primaryAttName && input.hasOwnProperty('id')
FallbackToId(rec, attName, primaryAttName) ==
    Str(attName) = primaryAttName /\ hasOwnProperty(rec, "id")

Extracted(ids, w) == [identifiers |-> ids, warned |-> w]

\* The loop over identifierAttributes for one input record.
RECURSIVE ExtractOne(_, _, _, _)
ExtractOne(attrs, rec, primaryAttName, acc) ==
    IF attrs = <<>> THEN acc
    ELSE LET attName == Head(attrs).name
         IN ExtractOne(Tail(attrs), rec, primaryAttName,
                IF hasOwnProperty(rec, attName)
                THEN Extracted(SetEntry(acc.identifiers, attName, rec.f[attName]), acc.warned)
                ELSE IF FallbackToId(rec, attName, primaryAttName)
                THEN Extracted(SetEntry(acc.identifiers, attName, rec.f["id"]), acc.warned)
                ELSE IF Head(attrs).required
                THEN Extracted(acc.identifiers, Append(acc.warned, attName))
                ELSE acc)

\* One extracted identifier mapping, its entries in insertion order.
Identifiers(entries) == [k |-> "identifiers", entries |-> entries]

\* An extraction that always answers with the batch.
ReturnedAsBatch(isBatchInput, identifiersBatch) == Arr(identifiersBatch)

\* return isBatchInput ? identifiersBatch : identifiersBatch[0]
Returned(isBatchInput, identifiersBatch) ==
    IF isBatchInput THEN Arr(identifiersBatch) ELSE identifiersBatch[1]

Extraction(out, e, value, w) == [out |-> out, err |-> e, value |-> value, warned |-> w]

extractEntityIdentifiers(sch, in, ctx) ==
    IF InputRejected(in) THEN Extraction("threw", "InputRequired", Undef, <<>>)
    ELSE
      LET isBatchInput == isArray(in)
          inputs == IF isBatchInput THEN in.xs ELSE <<in>>
          patterns == makeEntityAccessPatternsSchema(sch)
      IN IF IterationThrows(patterns, ctx)
         THEN Extraction("threw", "TypeError", Undef, <<>>)
         ELSE
           LET identifierAttributes == IdentifierAttributes(patterns, ctx)
               primaryAttName == PrimaryIdPropertyName(sch)
               \* input.hasOwnProperty of null or undefined, or of a primitive
               usable(x) == IF isObject(x) THEN x ELSE EmptyObj
               one(i) == ExtractOne(identifierAttributes, usable(inputs[i]),
                                    primaryAttName, Extracted(<<>>, <<>>))
               firstBad == {i \in 1..Len(inputs) :
                               /\ inputs[i].k \in {"undef", "null"}
                               /\ identifierAttributes # <<>>}
               warnings == Flatten([i \in 1..Len(inputs) |->
                               [j \in 1..Len(one(i).warned) |-> <<i, one(i).warned[j]>>]])
           IN IF firstBad # {}
              THEN Extraction("threw", "TypeError", Undef,
                     LET b == CHOOSE i \in firstBad : \A j \in firstBad : i <= j
                     IN SelectSeq(warnings, LAMBDA w : w[1] < b))
              ELSE Extraction("returned", "",
                     Returned(isBatchInput,
                              [i \in 1..Len(inputs) |-> Identifiers(one(i).identifiers)]),
                     warnings)

(***************************************************************************)
(* The extractions explored.                                               *)
(***************************************************************************)
\* The same attributes with none marked as the identifier.
NoIdentifierAttributes ==
    << <<"entityId", [type |-> Str("string")]>>,
       <<"tenantId", [type |-> Str("string"), required |-> Bool(FALSE), isVisible |-> Bool(FALSE)]>>,
       <<"name", [type |-> Str("string"), required |-> Bool(TRUE), name |-> Str("Full name")]>> >>

ExtractIndexes ==
    { <<>>,
      <<Index("primary", <<"entityId">>, Undef)>>,
      <<Index("primary", <<"tenantId">>, Sk(<<"entityId">>)), Index("byName", <<"name">>, Undef)>>,
      <<Index("byTenant", <<"tenantId">>, Sk(<<"name">>)),
        Index("byName", <<"name">>, Sk(<<"entityId">>))>>,
      <<Index("byName", <<"name">>, Undef)>> }

ExtractSchemas ==
    { [attributes |-> as, indexes |-> ixs] :
        as \in {SchemaAttributes, NoIdentifierAttributes}, ixs \in ExtractIndexes }

InputRecords ==
    { Obj([name |-> Str("a"), id |-> Str("123")]),
      Obj([entityId |-> Str("e1"), id |-> Str("123")]),
      Obj([entityId |-> Str("e2"), tenantId |-> Str("t1")]),
      Obj([tenantId |-> Str("t2"), name |-> Str("b")]),
      Obj([entityId |-> Undef]),
      EmptyObj }

Inputs ==
    InputRecords
      \cup {Arr(xs) : xs \in SeqsUpTo(InputRecords \cup {Null}, MaxInputs)}
      \cup {Undef, Null, Str(""), Str("e1"), Num("5"), Bool(TRUE)}

Contexts ==
    { [forAccessPattern |-> p] :
        p \in {Undef, Str(""), Str("primary"), Str("byName"), Str("nosuch")} }

InitExtract ==
    /\ schema \in ExtractSchemas
    /\ input \in Inputs
    /\ context \in Contexts
    /\ xpc = "idle"
    /\ xerr = ""
    /\ xout = Undef
    /\ warned = <<>>
    /\ apc = "off"
    /\ accessPatterns = <<>>
    /\ HydrationOff
    /\ OpsOff
    /\ ListOff
    /\ GetOff
    /\ OutsideOff

\* extractEntityIdentifiers(input, context) is called.
ExtractEntityIdentifiers ==
    /\ xpc = "idle"
    /\ LET x == extractEntityIdentifiers(schema, input, context)
       IN /\ xpc' = x.out
          /\ xerr' = x.err
          /\ xout' = x.value
          /\ warned' = x.warned
    /\ UNCHANGED <<hvars, svars, gvars, zvars, input, context, ovars, lvars>>

NextExtract == ExtractEntityIdentifiers

SpecExtract == InitExtract /\ [][NextExtract]_vars

(***************************************************************************)
(* The ops schema of a service: makeOpsDefaultIOSchema, its cache          *)
(* entityOpsDefaultIoSchema, and the getters that read through the cache.  *)
(***************************************************************************)
\* Most getter calls made on one service instance.
MaxCalls == 3

\* An attribute whose flag is not set, always taken as set.
FlagAlwaysSet(formattedAtt, flag) == TRUE

\* if(formattedAtt.isVisible) ... and the like
FlagSet(formattedAtt, flag) == Truthy(formattedAtt[flag])

\* A builder that skips no attribute.
NeverHidden(formattedAtt) == FALSE

\* if(formattedAtt.hidden) continue
IsHidden(formattedAtt) == Truthy(Prop(formattedAtt, "hidden"))

OpsSets(detail, list, create, update) ==
    [detail |-> detail, list |-> list, create |-> create, update |-> update]

\* The loop over schema.attributes, filling the two input and two output Maps.
RECURSIVE AddAttributes(_, _)
AddAttributes(attributes, sets) ==
    IF attributes = <<>> THEN sets
    ELSE LET attName == Head(attributes)[1]
             formattedAtt == entityAttributeToIOSchemaAttribute(attName, Head(attributes)[2])
             put(map, flag) == IF FlagSet(formattedAtt, flag)
                               THEN MapSet(map, attName, formattedAtt) ELSE map
         IN AddAttributes(Tail(attributes),
                IF IsHidden(formattedAtt) THEN sets
                ELSE OpsSets(put(sets.detail, "isVisible"), put(sets.list, "isListable"),
                             put(sets.create, "isCreatable"), put(sets.update, "isEditable")))

makeOpsDefaultIOSchema(sch) ==
    LET sets == AddAttributes(sch.attributes,
                              OpsSets(MapOf(<<>>), MapOf(<<>>), MapOf(<<>>), MapOf(<<>>)))
        defaultAccessPattern == MapGet(makeEntityAccessPatternsSchema(sch), "primary")
    IN [get |-> [by |-> defaultAccessPattern, output |-> sets.detail],
        delete |-> [by |-> defaultAccessPattern],
        create |-> [input |-> sets.create,
                    output |-> [detail |-> sets.detail, list |-> sets.list]],
        update |-> [by |-> defaultAccessPattern, input |-> sets.update,
                    output |-> sets.detail],
        list |-> [output |-> sets.list]]

\* An object made by makeOpsDefaultIOSchema: ref tells one such object from another.
OpsObject(ref, value) == [k |-> "ops", ref |-> ref, value |-> value]

\* A getter that never finds the cache filled.
AlwaysMissing(cached) == TRUE

\* if(!this.entityOpsDefaultIoSchema)
CacheMissing(cached) == ~Truthy(cached)

\* getOpsDefaultIOSchema(): the cache after the call and the runs of
\* makeOpsDefaultIOSchema so far; what it returns is the cache.
getOpsDefaultIOSchema(cached, runs, sch) ==
    IF CacheMissing(cached)
    THEN [cache |-> OpsObject(runs + 1, makeOpsDefaultIOSchema(sch)), built |-> runs + 1]
    ELSE [cache |-> cached, built |-> runs]

\* Array.from(map.keys())
MapKeys(map) == KeysOf(map.entries)

(***************************************************************************)
(* The services explored: an identifier attribute, hidden or not, that the *)
(* primary index is keyed on, and one attribute with every combination of  *)
(* hidden and the four flags absent, true or false.                        *)
(***************************************************************************)
OpsFlags == {"hidden", "isVisible", "isListable", "isCreatable", "isEditable"}

FlaggedAttribute(c) ==
    [p \in {"type"} \cup {q \in OpsFlags : c[q] # "absent"} |->
        IF p = "type" THEN Str("string") ELSE Bool(c[p] = "true")]

AttributeShapes == {FlaggedAttribute(c) : c \in [OpsFlags -> {"absent", "true", "false"}]}

KeyAttributes ==
    { [type |-> Str("string"), isIdentifier |-> Bool(TRUE)],
      [type |-> Str("string"), isIdentifier |-> Bool(TRUE), hidden |-> Bool(TRUE)] }

OpsSchemas ==
    { [attributes |-> << <<"entityId", key>>, <<"label", att>> >>,
       indexes |-> << Index("primary", <<"entityId">>, Sk(<<"label">>)) >>] :
        key \in KeyAttributes, att \in AttributeShapes }

InitOps ==
    /\ schema \in OpsSchemas
    /\ entityOpsDefaultIoSchema = Undef
    /\ built = 0
    /\ opsLog = <<>>
    /\ apc = "off"
    /\ accessPatterns = <<>>
    /\ HydrationOff
    /\ ExtractOff
    /\ ListOff
    /\ GetOff
    /\ OutsideOff

Logged(op, ref, names) == [op |-> op, ref |-> ref, names |-> names]

\* getOpsDefaultIOSchema() is called.
GetOpsDefaultIOSchema ==
    /\ Len(opsLog) < MaxCalls
    /\ LET g == getOpsDefaultIOSchema(entityOpsDefaultIoSchema, built, schema)
       IN /\ entityOpsDefaultIoSchema' = g.cache
          /\ built' = g.built
          /\ opsLog' = Append(opsLog, Logged("getOpsDefaultIOSchema", g.cache.ref, <<>>))
    /\ UNCHANGED <<hvars, svars, gvars, zvars, evars, lvars>>

\* getDefaultSerializationAttributeNames() is called.
GetDefaultSerializationAttributeNames ==
    /\ Len(opsLog) < MaxCalls
    /\ LET g == getOpsDefaultIOSchema(entityOpsDefaultIoSchema, built, schema)
       IN /\ entityOpsDefaultIoSchema' = g.cache
          /\ built' = g.built
          /\ opsLog' = Append(opsLog, Logged("getDefaultSerializationAttributeNames",
                                g.cache.ref, MapKeys(g.cache.value.get.output)))
    /\ UNCHANGED <<hvars, svars, gvars, zvars, evars, lvars>>

\* getListingAttributeNames() is called.
GetListingAttributeNames ==
    /\ Len(opsLog) < MaxCalls
    /\ LET g == getOpsDefaultIOSchema(entityOpsDefaultIoSchema, built, schema)
       IN /\ entityOpsDefaultIoSchema' = g.cache
          /\ built' = g.built
          /\ opsLog' = Append(opsLog, Logged("getListingAttributeNames",
                                g.cache.ref, MapKeys(g.cache.value.list.output)))
    /\ UNCHANGED <<hvars, svars, gvars, zvars, evars, lvars>>

NextOps ==
    \/ GetOpsDefaultIOSchema
    \/ GetDefaultSerializationAttributeNames
    \/ GetListingAttributeNames

SpecOps == InitOps /\ [][NextOps]_vars

(***************************************************************************)
(* The same service over schemas whose attributes declare required and     *)
(* validations, which entityAttributeToIOSchemaAttribute turns into the    *)
(* validations of the IO-schema attribute.                                 *)
(***************************************************************************)
ValidatedAttribute(required, validations) ==
    [p \in {"type"} \cup (IF required = "absent" THEN {} ELSE {"required"})
                    \cup (IF validations = Undef THEN {} ELSE {"validations"}) |->
        CASE p = "type" -> Str("string")
          [] p = "required" -> Bool(required = "true")
          [] p = "validations" -> validations]

DeclaredValidations ==
    { Undef, Arr(<<>>), Arr(<<Str("email")>>), Arr(<<Str("email"), Str("minLength")>>) }

ValidatedSchemas ==
    { [attributes |->
         << <<"entityId", [type |-> Str("string"), isIdentifier |-> Bool(TRUE)]>>,
            <<"label", ValidatedAttribute(r, v)>> >>,
       indexes |-> << Index("primary", <<"entityId">>, Undef) >>] :
        r \in {"absent", "true", "false"}, v \in DeclaredValidations }

InitValidated ==
    /\ schema \in ValidatedSchemas
    /\ entityOpsDefaultIoSchema = Undef
    /\ built = 0
    /\ opsLog = <<>>
    /\ apc = "off"
    /\ accessPatterns = <<>>
    /\ HydrationOff
    /\ ExtractOff
    /\ ListOff
    /\ GetOff
    /\ OutsideOff

SpecValidated == InitValidated /\ [][NextOps]_vars

(***************************************************************************)
(* list(query): selection and search resolution, the call of listEntity,   *)
(* serialization, and the hand-over to hydration.  A string that is split  *)
(* is the sequence of its characters; an attribute name inside such a      *)
(* string is one character of it.                                          *)
(***************************************************************************)
Text(chars) == [k |-> "text", chars |-> chars]

isString(x) == x.k = "text"

\* utils.isEmpty
isEmpty(x) ==
    CASE x.k = "arr" -> x.xs = <<>>
      [] x.k = "text" -> x.chars = <<>>
      [] x.k \in {"undef", "null"} -> TRUE
      [] OTHER -> FALSE

\* A selection tree: its <<attribute name, node>> entries in insertion order.  A
\* node is true (a leaf) or an object (a nested selection, relation options).
Tree(entries) == [k |-> "tree", entries |-> entries]

\* parseEntityAttributePaths: one path merged into the tree built so far.
RECURSIVE InsertPath(_, _)
InsertPath(entries, path) ==
    LET segment == Head(path)
        existing == MapGet(Tree(entries), segment)
    IN IF Len(path) = 1
       THEN IF HasKey(entries, segment) THEN entries
            ELSE Append(entries, <<segment, Bool(TRUE)>>)
       ELSE LET nested == IF isObject(existing) THEN existing.f.attributes.entries ELSE <<>>
            IN SetEntry(entries, segment,
                        Obj([attributes |-> Tree(InsertPath(nested, Tail(path)))]))

RECURSIVE InsertPaths(_, _)
InsertPaths(entries, paths) ==
    IF paths = <<>> THEN entries
    ELSE InsertPaths(InsertPath(entries, Head(paths)), Tail(paths))

parseEntityAttributePaths(paths) == Tree(InsertPaths(<<>>, paths))

\* inferRelationshipsForEntitySelections: a node of an attribute the schema
\* declares a relation for carries the relation's target and metadata.
inferRelationshipsForEntitySelections(sch, tree) ==
    Tree([i \in 1..Len(tree.entries) |->
        LET attName == tree.entries[i][1]
            node == tree.entries[i][2]
            att == SchemaAttribute(sch, attName)
            relation == IF att = Undef THEN Undef ELSE Prop(att, "relation")
        IN IF ~Truthy(relation) THEN tree.entries[i]
           ELSE IF isObject(node) /\ hasOwnProperty(node, "relation") THEN tree.entries[i]
           ELSE <<attName,
                  Obj([entityName |-> relation.entity.model.entity, relation |-> relation,
                       attributes |-> IF isObject(node) THEN node.f.attributes ELSE Undef])>>])

\* str.split(separator): the pieces between separators, empty ones included; a
\* run of separators counts as one when `runs` is set (a /(...)+/ separator).
RECURSIVE SplitOn(_, _, _, _)
SplitOn(chars, separators, runs, piece) ==
    IF chars = <<>> THEN <<piece>>
    ELSE IF Head(chars) \in separators
    THEN LET rest == Tail(chars)
             more == runs /\ rest # <<>> /\ Head(rest) \in separators
         IN IF more THEN SplitOn(rest, separators, runs, piece)
            ELSE <<piece>> \o SplitOn(rest, separators, runs, <<>>)
    ELSE SplitOn(Tail(chars), separators, runs, Append(piece, Head(chars)))

\* The pieces with no filter applied, each a string again.
AllPieces(pieces) == [i \in 1..Len(pieces) |-> Text(pieces[i])]

\* .filter(s => !!s), each piece a string again
NonEmptyPieces(pieces) ==
    LET kept == SelectSeq(pieces, LAMBDA p : p # <<>>)
    IN [i \in 1..Len(kept) |-> Text(kept[i])]

\* The white space str.trim() strips, as far as the inputs explored use it.
Whitespace == {" ", "\t"}

\* str.trim()
RECURSIVE TrimStart(_)
TrimStart(chars) ==
    IF chars # <<>> /\ Head(chars) \in Whitespace THEN TrimStart(Tail(chars)) ELSE chars

RECURSIVE TrimEnd(_)
TrimEnd(chars) ==
    IF chars # <<>> /\ chars[Len(chars)] \in Whitespace
    THEN TrimEnd(SubSeq(chars, 1, Len(chars) - 1)) ELSE chars

Trim(chars) == TrimEnd(TrimStart(chars))

\* delimitersRegex = /(?:&| |,|\+)+/
Delimiters == {"&", " ", ",", "+"}

\* query.search.trim().split(this.delimitersRegex).filter(s => !!s)
SearchTerms(search) ==
    Arr(NonEmptyPieces(SplitOn(Trim(search.chars), Delimiters, TRUE, <<>>)))

\* getSearchableAttributeNames()
getSearchableAttributeNames(sch) ==
    LET searchable(e) ==
            /\ ~Truthy(Prop(e[2], "hidden"))
            /\ ~Truthy(Prop(e[2], "isIdentifier"))
            /\ Prop(e[2], "type") = Str("string")
            /\ ("isSearchable" \notin DOMAIN e[2] \/ Truthy(e[2]["isSearchable"]))
        kept == SelectSeq(sch.attributes, searchable)
    IN Arr([i \in 1..Len(kept) |-> Text(<<kept[i][1]>>)])

\* makeFilterGroupForSearchKeywords
makeFilterGroupForSearchKeywords(search, searchAttributes) ==
    [k |-> "group", terms |-> search, attributes |-> searchAttributes]

\* addFilterGroupToEntityFilterCriteria
addFilterGroupToEntityFilterCriteria(group, filters) ==
    [k |-> "and", group |-> group, filters |-> filters]

\* query.search.length > 0
HasTerms(search) == isArray(search) /\ Len(search.xs) > 0

\* `if(query.search){ ... }` of list
ListSearch(q, sch) ==
    IF ~Truthy(q.search) THEN q
    ELSE
      LET search == IF isString(q.search) THEN SearchTerms(q.search) ELSE q.search
          split == IF isString(q.searchAttributes)
                   THEN Arr(NonEmptyPieces(SplitOn(q.searchAttributes.chars, {","}, FALSE, <<>>)))
                   ELSE q.searchAttributes
          searchAttributes == IF ~Truthy(split) \/ isEmpty(split)
                              THEN getSearchableAttributeNames(sch) ELSE split
      IN IF ~HasTerms(search) THEN [q EXCEPT !.search = search]
         ELSE [q EXCEPT !.search = search,
                        !.searchAttributes = searchAttributes,
                        !.filters = addFilterGroupToEntityFilterCriteria(
                                      makeFilterGroupForSearchKeywords(search, searchAttributes),
                                      q.filters)]

\* A list() that defaults to the detail attributes.
DetailSelection(ops) == MapKeys(ops.get.output)

\* getListingAttributeNames() on the ops schema
ListingSelection(ops) == MapKeys(ops.list.output)

\* A list of attribute names as the list of (one-segment) paths it is.
NamesAsPaths(names) == Arr([i \in 1..Len(names) |-> <<names[i]>>])

\* `if(Array.isArray(query.attributes)){ ... }` of list
ResolvedSelection(selection, sch) ==
    IF isArray(selection)
    THEN inferRelationshipsForEntitySelections(sch, parseEntityAttributePaths(selection.xs))
    ELSE selection

\* list() from its test of Array.isArray on, for the selection and the state g
\* of the ops-schema cache its first statement left.
ListWith(q, selection, g, sch) ==
    [query |-> ListSearch([q EXCEPT !.attributes = ResolvedSelection(selection, sch)], sch),
     cache |-> g.cache, built |-> g.built]

\* list() up to its await of listEntity: the query object as it is then, and the
\* ops-schema cache, which is read only when no attributes are given.
ListSync(q, cached, runs, sch) ==
    IF ~Truthy(q.attributes)
    THEN \* query.attributes = this.getListingAttributeNames()
         ListWith(q, NamesAsPaths(ListingSelection(
                        getOpsDefaultIOSchema(cached, runs, sch).cache.value)),
                  getOpsDefaultIOSchema(cached, runs, sch), sch)
    ELSE ListWith(q, q.attributes, [cache |-> cached, built |-> runs], sch)

\* serializeRecords(records, attributes) for attributes that are not an array
serializeRecords(data, attributes) ==
    [i \in 1..Len(data) |-> PickKeys(data[i], KeysOf(attributes.entries))]

\* The entries of the selection that list hands to hydrateRecords.
RelationalAttributes(attributes) ==
    SelectSeq(attributes.entries, LAMBDA e : isObject(e[2]))

(***************************************************************************)
(* The list calls explored.                                                *)
(***************************************************************************)
\* A related entity's schema, as a relation's `entity` holds it.
EntitySchemaOf(entityName) == [k |-> "schema", model |-> [entity |-> Str(entityName)]]

CustomerRelation ==
    [k |-> "relation", entity |-> EntitySchemaOf("Customer"), type |-> Str("many-to-one")]

ListFlags == {"absent", "false"}

Flagged(att, flag, c) ==
    IF c = "absent" THEN att
    ELSE [p \in DOMAIN att \cup {flag} |-> IF p = flag THEN Bool(FALSE) ELSE att[p]]

ListSchemas ==
    { [attributes |->
         << <<"entityId", [type |-> Str("string"), isIdentifier |-> Bool(TRUE)]>>,
            <<"name", Flagged(Flagged([type |-> Str("string")], "isListable", l), "isVisible", v)>>,
            <<"customer", Flagged([type |-> Str("string"), relation |-> CustomerRelation],
                                  "isListable", c)>>,
            <<"secret", [type |-> Str("string"), hidden |-> Bool(TRUE)]>> >>,
       indexes |-> << Index("primary", <<"entityId">>, Undef) >>] :
        l \in ListFlags, v \in ListFlags, c \in ListFlags }

Query(attributes, search, searchAttributes, filters) ==
    [attributes |-> attributes, search |-> search,
     searchAttributes |-> searchAttributes, filters |-> filters]

Queries ==
    { Query(a, s, sa, f) :
        a \in { Undef, Null, Arr(<< <<"name">>, <<"customer", "name">> >>),
                Tree(<< <<"name", Bool(TRUE)>>, <<"customer", Bool(TRUE)>> >>) },
        s \in { Undef, Text(<<>>), Text(<<" ", ",">>), Text(<<"a", "+", " ", "b">>),
                Text(<<"\t", "a", "&", ",", "b", " ">>), Arr(<<Text(<<"a">>)>>) },
        sa \in { Undef, Text(<<"name", ",">>), Arr(<<>>), Arr(<<Text(<<"name">>)>>) },
        f \in { Undef, [k |-> "filter"] } }

\* What the persistence collaborator has stored for the entity.
ListStore ==
    << Obj([entityId |-> Str("e1"), name |-> Str("Ann"), customer |-> Str("c1"),
            secret |-> Str("x")]),
       Obj([entityId |-> Str("e2"), name |-> Str("Bob"), customer |-> Str("c2"),
            secret |-> Str("y")]) >>

InitList ==
    /\ schema \in ListSchemas
    /\ given \in Queries
    /\ query = given
    /\ lpc = "idle"
    /\ passed = Undef
    /\ listed = Undef
    /\ called = "none"
    /\ selectAttributes = Undef
    /\ apc = "off"
    /\ accessPatterns = <<>>
    /\ HydrationOff
    /\ ExtractOff
    /\ OpsOff
    /\ GetOff
    /\ OutsideOff

\* list(query) is called and runs up to its await of listEntity.
List ==
    /\ lpc = "idle"
    /\ \E l \in {ListSync(query, entityOpsDefaultIoSchema, built, schema)} :
          /\ query' = l.query
          /\ passed' = l.query
          /\ entityOpsDefaultIoSchema' = l.cache
          /\ built' = l.built
    /\ lpc' = "listing"
    /\ called' = "list"
    /\ UNCHANGED <<hvars, svars, gvars, zvars, evars, opsLog, given, listed, selectAttributes>>

Entities(data, hydrated) == [data |-> data, hydrated |-> hydrated, query |-> query]

\* listEntity resolves with some of the stored records; they are serialized and,
\* when the selection has relational attributes, handed to hydrateRecords.
ListEntityReturns ==
    /\ called = "list"
    /\ lpc = "listing"
    /\ \E n \in 0..Len(ListStore) :
         LET data == serializeRecords(SubSeq(ListStore, 1, n), query.attributes)
         IN IF RelationalAttributes(query.attributes) # <<>>
            THEN lpc' = "hydrating" /\ listed' = Entities(data, FALSE)
            ELSE lpc' = "returned" /\ listed' = Entities(data, FALSE)
    /\ UNCHANGED <<hvars, svars, gvars, zvars, evars, ovars, given, query, passed, called, selectAttributes>>

\* listEntity rejects: list has no try/catch.
ListEntityFails ==
    /\ called = "list"
    /\ lpc = "listing"
    /\ lpc' = "rejected"
    /\ UNCHANGED <<hvars, svars, gvars, zvars, evars, ovars, given, query, passed, listed, called, selectAttributes>>

\* hydrateRecords resolves: list returns {...entities, query}.
ListHydrated ==
    /\ called = "list"
    /\ lpc = "hydrating"
    /\ lpc' = "returned"
    /\ listed' = [listed EXCEPT !.hydrated = TRUE]
    /\ UNCHANGED <<hvars, svars, gvars, zvars, evars, ovars, given, query, passed, called, selectAttributes>>

\* hydrateRecords rejects.
ListHydrationFails ==
    /\ called = "list"
    /\ lpc = "hydrating"
    /\ lpc' = "rejected"
    /\ UNCHANGED <<hvars, svars, gvars, zvars, evars, ovars, given, query, passed, listed, called, selectAttributes>>

\* `if(query.search){ ... }` of query
QuerySearch(q, sch) ==
    IF ~Truthy(q.search) THEN q
    ELSE
      LET search == IF isString(q.search) THEN SearchTerms(q.search) ELSE q.search
          \* query.searchAttributes || this.getSearchableAttributeNames()
          searchAttributes == IF Truthy(q.searchAttributes) THEN q.searchAttributes
                              ELSE getSearchableAttributeNames(sch)
      IN IF ~HasTerms(search) THEN [q EXCEPT !.search = search]
         ELSE [q EXCEPT !.search = search,
                        !.searchAttributes = searchAttributes,
                        !.filters = addFilterGroupToEntityFilterCriteria(
                                      makeFilterGroupForSearchKeywords(search, searchAttributes),
                                      q.filters)]

\* The selectAttributes of query() after its if/else on Array.isArray.
SelectAttributes(selection, sch) ==
    IF isArray(selection)
    THEN inferRelationshipsForEntitySelections(sch, parseEntityAttributePaths(selection.xs))
    ELSE inferRelationshipsForEntitySelections(sch, selection)

\* query() from its test of Array.isArray on: the local selectAttributes, the
\* query object, whose attributes are never written, and the ops-schema cache.
QueryWith(q, selection, g, sch) ==
    [selectAttributes |-> SelectAttributes(selection, sch),
     query |-> QuerySearch(q, sch), cache |-> g.cache, built |-> g.built]

\* query() up to its await of queryEntity.
QuerySync(q, cached, runs, sch) ==
    IF ~Truthy(q.attributes)
    THEN \* attributes || this.getListingAttributeNames()
         QueryWith(q, NamesAsPaths(ListingSelection(
                        getOpsDefaultIOSchema(cached, runs, sch).cache.value)),
                   getOpsDefaultIOSchema(cached, runs, sch), sch)
    ELSE QueryWith(q, q.attributes, [cache |-> cached, built |-> runs], sch)

\* query(query) is called and runs up to its await of queryEntity.
RunQuery ==
    /\ lpc = "idle"
    /\ \E l \in {QuerySync(query, entityOpsDefaultIoSchema, built, schema)} :
          /\ query' = l.query
          /\ passed' = l.query
          /\ selectAttributes' = l.selectAttributes
          /\ entityOpsDefaultIoSchema' = l.cache
          /\ built' = l.built
    /\ lpc' = "listing"
    /\ called' = "query"
    /\ UNCHANGED <<hvars, svars, gvars, zvars, evars, opsLog, given, listed>>

\* queryEntity resolves with some of the stored records; they are serialized
\* with selectAttributes and, when it has relational attributes, handed to
\* hydrateRecords.
QueryEntityReturns ==
    /\ called = "query"
    /\ lpc = "listing"
    /\ \E n \in 0..Len(ListStore) :
         LET data == serializeRecords(SubSeq(ListStore, 1, n), selectAttributes)
         IN IF RelationalAttributes(selectAttributes) # <<>>
            THEN lpc' = "hydrating" /\ listed' = Entities(data, FALSE)
            ELSE lpc' = "returned" /\ listed' = Entities(data, FALSE)
    /\ UNCHANGED <<hvars, svars, gvars, zvars, evars, ovars, given, query, passed, called, selectAttributes>>

\* queryEntity rejects: query has no try/catch.
QueryEntityFails ==
    /\ called = "query"
    /\ lpc = "listing"
    /\ lpc' = "rejected"
    /\ UNCHANGED <<hvars, svars, gvars, zvars, evars, ovars, given, query, passed, listed, called, selectAttributes>>

\* hydrateRecords resolves: query returns {...entities, query}.
QueryHydrated ==
    /\ called = "query"
    /\ lpc = "hydrating"
    /\ lpc' = "returned"
    /\ listed' = [listed EXCEPT !.hydrated = TRUE]
    /\ UNCHANGED <<hvars, svars, gvars, zvars, evars, ovars, given, query, passed, called, selectAttributes>>

\* hydrateRecords rejects.
QueryHydrationFails ==
    /\ called = "query"
    /\ lpc = "hydrating"
    /\ lpc' = "rejected"
    /\ UNCHANGED <<hvars, svars, gvars, zvars, evars, ovars, given, query, passed, listed, called, selectAttributes>>

NextList ==
    \/ List
    \/ ListEntityReturns
    \/ ListEntityFails
    \/ ListHydrated
    \/ ListHydrationFails
    \/ RunQuery
    \/ QueryEntityReturns
    \/ QueryEntityFails
    \/ QueryHydrated
    \/ QueryHydrationFails

SpecList == InitList /\ [][NextList]_vars

(***************************************************************************)
(* get.  The service is the Order service of the hydrations above: its     *)
(* records are over RootAttrs, its customer attribute is a relation to      *)
(* Customer or a plain map, its seller attribute a relation to Seller.  get *)
(* resolves the selection, asks getEntity for its top-level attributes and  *)
(* hands [entity.data] to hydrateRecords, whose steps are the hydration     *)
(* actions above.                                                          *)
(***************************************************************************)
\* The relation of a schema attribute, as hydrateSingleRelation reads it.
SchemaRelation(entityName, meta) ==
    [k |-> "relation", entity |-> EntitySchemaOf(entityName),
     type |-> Str("many-to-one"), identifiers |-> meta.identifiers]

\* The Order schema of a world c.
GetSchema(c) ==
    [attributes |->
       << <<"id", [type |-> Str("string"), isIdentifier |-> Bool(TRUE)]>>,
          <<"customerId", [type |-> Str("string")]>>,
          <<"customer", IF c.relMeta["customer"].k = "relation"
                        THEN [type |-> Str("string"),
                              relation |-> SchemaRelation("Customer", c.relMeta["customer"])]
                        ELSE [type |-> Str("map")]>>,
          <<"seller", [type |-> Str("string"),
                       relation |-> SchemaRelation("Seller", c.relMeta["seller"])]>> >>,
     indexes |-> << Index("primary", <<"id">>, Undef) >>]

\* What the persistence collaborator has stored of Order in a world c.
GetStore(c) ==
    LET raw(n) == IF c.relMeta["customer"].k # "relation" THEN Obj([name |-> Str("home")])
                  ELSE IF c.relMeta["customer"].identifiers = Undef THEN Str(n)
                  ELSE CustomerIdObj(n)
    IN << [id |-> Num("1"), customerId |-> Str("c1"), customer |-> raw("c1"), seller |-> Str("s1")],
          [id |-> Num("2"), customerId |-> Str("c2"), customer |-> raw("c2"), seller |-> Str("s1")] >>

\* A stored record cut to the attributes asked for; one not asked for reads as
\* undefined.
CutTo(rec, attributes) ==
    [a \in RootAttrs |-> IF a \in Range(attributes) THEN rec[a] ELSE Undef]

\* entity.data when it is one record.
One(rec) == [k |-> "one", rec |-> rec]

\* crud-service getEntity: entity.data.  For one identifier mapping the stored
\* record it names, undefined when there is none; for a batch of identifier
\* mappings the list of the stored records they name.
GetRootEntity(store, id, attributes) ==
    LET named(rec, one) == one.f.id = rec.id
        found(ids) == SelectSeq(store, LAMBDA rec : \E i \in 1..Len(ids) : named(rec, ids[i]))
    IN IF isArray(id)
       THEN Arr([i \in 1..Len(found(id.xs)) |-> CutTo(found(id.xs)[i], attributes)])
       ELSE IF found(<<id>>) = <<>> THEN Undef
       ELSE One(CutTo(found(<<id>>)[1], attributes))

\* identifier.source?.split?.('.')?.[0] of each of options.identifiers, the
\* falsy ones left out
TopKeys(node) ==
    IF isObject(node) /\ hasOwnProperty(node, "identifiers") /\ Truthy(node.f.identifiers)
    THEN LET ids == IF isArray(node.f.identifiers) THEN node.f.identifiers.xs
                    ELSE <<node.f.identifiers>>
             keys == [i \in 1..Len(ids) |-> Head(ids[i].source)]
         IN SelectSeq(keys, LAMBDA key : key # "")
    ELSE <<>>

\* [...new Set(names)]
RECURSIVE UniqueNames(_)
UniqueNames(names) ==
    IF names = <<>> THEN <<>>
    ELSE <<Head(names)>> \o UniqueNames(SelectSeq(Tail(names), LAMBDA x : x # Head(names)))

\* requiredSelectAttributes, made unique
UniqueSelectionAttributes(tree) ==
    UniqueNames(Flatten([i \in 1..Len(tree.entries) |->
                                <<tree.entries[i][1]>> \o TopKeys(tree.entries[i][2])]))

\* The HydrateOptionForRelation a selection node is, as the hydrator reads it.
HydrateOptions(node) ==
    Opts(IF hasOwnProperty(node, "entityName") THEN node.f.entityName.v ELSE "",
         IF hasOwnProperty(node, "attributes") /\ node.f.attributes # Undef
         THEN SelMap(KeysOf(node.f.attributes.entries)) ELSE Undef)

\* rootEntityRecords as hydrateSingleRelation reads them: entityData[name] of an
\* array, which a batch get wraps in [entity.data], is undefined for every name.
RootEntityRecords(data) ==
    IF isArray(data) THEN << [a \in RootAttrs |-> Undef] >> ELSE <<data.rec>>

\* get() with the selection it starts from.
GetWith(selection, g, sch) ==
    [formattedSelections |-> ResolvedSelection(selection, sch),
     cache |-> g.cache, built |-> g.built]

\* get() up to its await of getEntity.
GetSync(o, cached, runs, sch) ==
    IF ~Truthy(o.selections)
    THEN \* formattedSelections = this.getDefaultSerializationAttributeNames()
         GetWith(NamesAsPaths(MapKeys(
                    getOpsDefaultIOSchema(cached, runs, sch).cache.value.get.output)),
                 getOpsDefaultIOSchema(cached, runs, sch), sch)
    ELSE GetWith(o.selections, [cache |-> cached, built |-> runs], sch)

(***************************************************************************)
(* The gets explored.                                                      *)
(***************************************************************************)
GetWorld(registry, customerMeta) ==
    Config(registry, customerMeta, <<>>, NoOpts, NoOpts, <<"id", "name">>, {})

GetWorlds ==
    { GetWorld(r, meta) : r \in {Both, {"Seller"}},
                    meta \in {RelationOne(Mapping("customerId", "id")), RelationDefault, NoMeta} }

OrderId(n) == Obj([id |-> Num(n)])

GetCalls ==
    { [identifiers |-> i, selections |-> sel] :
        i \in { OrderId("1"), OrderId("9"), Arr(<<OrderId("1"), OrderId("2")>>),
                Arr(<<OrderId("9")>>) },
        sel \in { Undef, Arr(<< <<"id">>, <<"customer", "name">> >>),
                  Arr(<< <<"id">>, <<"customerId">> >>),
                  Tree(<< <<"id", Bool(TRUE)>>, <<"customer", Bool(TRUE)>> >>) } }

InitGet ==
    /\ cfg \in GetWorlds
    /\ schema = GetSchema(cfg)
    /\ getOptions \in GetCalls
    /\ gpc = "idle"
    /\ formattedSelections = Undef
    /\ asked = <<>>
    /\ entity = Undef
    /\ records = <<>>
    /\ original = <<>>
    /\ options = cfg.options
    /\ hpc = "off"
    /\ rpc = PerRelation("idle")
    /\ err = PerRelation("")
    /\ batch = PerRelation(<<>>)
    /\ selections = PerRelation(Undef)
    /\ dict = PerRelation(<<>>)
    /\ calls = PerRelation(0)
    /\ completed = <<>>
    /\ caller = "awaiting"
    /\ apc = "off"
    /\ accessPatterns = <<>>
    /\ ExtractOff
    /\ OpsOff
    /\ ListOff
    /\ OutsideOff

\* get(options) is called and runs up to its await of getEntity.
Get ==
    /\ gpc = "idle"
    /\ \E g \in {GetSync(getOptions, entityOpsDefaultIoSchema, built, schema)} :
          /\ formattedSelections' = g.formattedSelections
          /\ asked' = UniqueSelectionAttributes(g.formattedSelections)
          /\ entityOpsDefaultIoSchema' = g.cache
          /\ built' = g.built
    /\ gpc' = "getting"
    /\ UNCHANGED <<hvars, svars, zvars, evars, opsLog, lvars, getOptions, entity>>

\* getEntity resolves.  With a selection and data, the entries of the selection
\* that are objects are handed to hydrateRecords with [entity.data]; otherwise
\* get returns entity?.data.
GetEntityReturns ==
    /\ gpc = "getting"
    /\ \E data \in {GetRootEntity(GetStore(cfg), getOptions.identifiers, asked)} :
         /\ entity' = data
         /\ IF Truthy(formattedSelections) /\ Truthy(data)
               /\ RelationalAttributes(formattedSelections) # <<>>
            THEN /\ gpc' = "hydrating"
                 /\ hpc' = "idle"
                 /\ records' = RootEntityRecords(data)
                 /\ original' = RootEntityRecords(data)
                 /\ \E rel \in {RelationalAttributes(formattedSelections)} :
                      /\ cfg' = [cfg EXCEPT !.relations = KeysOf(rel)]
                      /\ options' = [r \in RelNames |->
                                       IF HasKey(rel, r) THEN HydrateOptions(MapGet(Tree(rel), r))
                                       ELSE options[r]]
            ELSE /\ gpc' = "returned"
                 /\ UNCHANGED <<hpc, records, original, cfg, options>>
    /\ UNCHANGED <<rpc, err, batch, selections, dict, calls, completed, caller,
                   svars, zvars, evars, ovars, lvars, getOptions, formattedSelections, asked>>

\* getEntity rejects: get has no try/catch.
GetEntityFails ==
    /\ gpc = "getting"
    /\ gpc' = "rejected"
    /\ UNCHANGED <<hvars, svars, zvars, evars, ovars, lvars, getOptions, formattedSelections, asked, entity>>

\* hydrateRecords has resolved: get returns entity?.data, the one record it
\* handed over as the merges left it, or the batch.
GetReturns ==
    /\ gpc = "hydrating"
    /\ hpc = "done"
    /\ gpc' = "returned"
    /\ entity' = IF isArray(entity) THEN entity ELSE One(records[1])
    /\ caller' = "returned"
    /\ UNCHANGED <<cfg, options, records, original, hpc, rpc, err, batch, selections, dict,
                   calls, completed, svars, zvars, evars, ovars, lvars, getOptions,
                   formattedSelections, asked>>

\* hydrateRecords has rejected: so does get.
GetRejects ==
    /\ gpc = "hydrating"
    /\ hpc = "failed"
    /\ gpc' = "rejected"
    /\ caller' = "rejected"
    /\ UNCHANGED <<cfg, options, records, original, hpc, rpc, err, batch, selections, dict,
                   calls, completed, svars, zvars, evars, ovars, lvars, getOptions,
                   formattedSelections, asked, entity>>

NextGet ==
    \/ Get
    \/ GetEntityReturns
    \/ GetEntityFails
    \/ HydrateRecords
    \/ \E r \in RelNames : FetchReturns(r)
    \/ \E r \in RelNames : FetchFails(r)
    \/ HydrateResolves
    \/ HydrateRejects
    \/ GetReturns
    \/ GetRejects

SpecGet == InitGet /\ [][NextGet]_vars

(***************************************************************************)
(* The mail handler (core/mail-processor.ts): one invocation over the      *)
(* records of an SQS event.  A record's body is the JSON text of a value,   *)
(* kept as that value, or text that is no JSON.  The handler runs from one  *)
(* await of the SES client to the next.                                    *)
(***************************************************************************)
\* Most records in one event.
MaxMessages == 3

Malformed == [k |-> "malformed"]

Json(value) == [k |-> "json", value |-> value]

\* JSON.parse(record.body): throws a SyntaxError for text that is no JSON.
ParseBody(body) ==
    IF body.k = "malformed" THEN [threw |-> TRUE, value |-> Undef]
    ELSE [threw |-> FALSE, value |-> body.value]

\* A property read or a destructuring throws a TypeError on null and undefined.
ReadThrows(x) == x \in {Undef, Null}

\* x[name] for x neither null nor undefined: undefined on a primitive.
Field(x, name) == IF isObject(x) THEN getValueByPath(x, name) ELSE Undef

\* templateData && templateData['testRenderEmailTemplate']
TestRenderAsked(templateData) ==
    Truthy(templateData) /\ Truthy(Field(templateData, "testRenderEmailTemplate"))

\* The body of the try block up to its await: "caught" when it throws, else the
\* command whose send it awaits.
Prepared(record) ==
    LET parsed == ParseBody(record.body)
        emailMessage == Field(parsed.value, "emailMessage")
        templateData == Field(parsed.value, "templateData")
    IN IF parsed.threw \/ ReadThrows(parsed.value) THEN "caught"
       ELSE IF TestRenderAsked(templateData)
       THEN IF ReadThrows(emailMessage) THEN "caught" ELSE "TestRenderEmailTemplate"
       ELSE IF ReadThrows(emailMessage) THEN "caught"
       ELSE IF Truthy(Field(emailMessage, "TemplateName")) THEN "Template"
       ELSE IF Truthy(Field(emailMessage, "Message")) /\ Truthy(Field(emailMessage, "Subject"))
       THEN "Simple"
       ELSE "caught"

\* A catch block that reports nothing.
Unreported(failures, record) == failures

\* batchItemFailures.push({itemIdentifier: record.messageId})
Reported(failures, record) == Append(failures, record.messageId)

\* The loop from record i on, up to the next await of the SES client or to the
\* return.
RECURSIVE RunFrom(_, _, _, _)
RunFrom(records_, i, failures, begun) ==
    IF i > Len(records_)
    THEN [pc |-> "returned", idx |-> 0, failures |-> failures, attempted |-> begun,
          response |-> failures]
    ELSE IF Prepared(records_[i]) = "caught"
    THEN RunFrom(records_, i + 1, Reported(failures, records_[i]), Append(begun, i))
    ELSE [pc |-> "sending", idx |-> i, failures |-> failures,
          attempted |-> Append(begun, i), response |-> Undef]

Settled(i, command, ok) == [record |-> i, command |-> command, ok |-> ok]

(***************************************************************************)
(* The events explored.                                                    *)
(***************************************************************************)
Address == Str("a@example.org")

EmailMessage(templateName, subject, message) ==
    Obj([FromEmailAddress |-> Address, ToEmailAddress |-> Address,
         TemplateName |-> templateName, Subject |-> subject, Message |-> message])

Bodies ==
    { Malformed, Json(Null), Json(Obj([templateData |-> Obj([x |-> Str("y")])])),
      Json(Obj([emailMessage |-> EmailMessage(Str("welcome"), Undef, Undef),
                templateData |-> Obj([name |-> Str("Ann")])])),
      Json(Obj([emailMessage |-> EmailMessage(Undef, Str("Hi"), Str("Hello"))])),
      Json(Obj([emailMessage |-> EmailMessage(Undef, Str("Hi"), Str(""))])),
      Json(Obj([emailMessage |-> EmailMessage(Str("welcome"), Undef, Undef),
                templateData |-> Obj([testRenderEmailTemplate |-> Bool(TRUE)])])),
      Json(Obj([templateData |-> Obj([testRenderEmailTemplate |-> Bool(TRUE)])])) }

\* The records of an event: SQS gives each message of a batch its own messageId.
InitMail ==
    /\ \E bodies \in SeqsUpTo(Bodies, MaxMessages) :
          event = [i \in 1..Len(bodies) |-> [messageId |-> i, body |-> bodies[i]]]
    /\ mpc = "idle"
    /\ idx = 0
    /\ batchItemFailures = <<>>
    /\ attempted = <<>>
    /\ sends = <<>>
    /\ response = Undef
    /\ AppOff
    /\ schema = NoSchema
    /\ apc = "off"
    /\ accessPatterns = <<>>
    /\ HydrationOff
    /\ ExtractOff
    /\ OpsOff
    /\ ListOff
    /\ GetOff

MailRuns(r) ==
    /\ mpc' = r.pc
    /\ idx' = r.idx
    /\ batchItemFailures' = r.failures
    /\ attempted' = r.attempted
    /\ response' = r.response

\* The handler is invoked with the event.
Handler ==
    /\ mpc = "idle"
    /\ \E r \in {RunFrom(event, 1, <<>>, <<>>)} : MailRuns(r)
    /\ UNCHANGED <<hvars, svars, evars, ovars, lvars, gvars, avars, event, sends>>

\* sesClient.send resolves: the record is done, the loop goes on.
SendResolves ==
    /\ mpc = "sending"
    /\ sends' = Append(sends, Settled(idx, Prepared(event[idx]), TRUE))
    /\ \E r \in {RunFrom(event, idx + 1, batchItemFailures, attempted)} : MailRuns(r)
    /\ UNCHANGED <<hvars, svars, evars, ovars, lvars, gvars, avars, event>>

\* sesClient.send rejects: the catch block reports the record, the loop goes on.
SendRejects ==
    /\ mpc = "sending"
    /\ sends' = Append(sends, Settled(idx, Prepared(event[idx]), FALSE))
    /\ \E r \in {RunFrom(event, idx + 1, Reported(batchItemFailures, event[idx]), attempted)} :
          MailRuns(r)
    /\ UNCHANGED <<hvars, svars, evars, ovars, lvars, gvars, avars, event>>

NextMail ==
    \/ Handler
    \/ SendResolves
    \/ SendRejects

SpecMail == InitMail /\ [][NextMail]_vars

(***************************************************************************)
(* Application.use and the constructs it is given.  The chain               *)
(* app.use(a).use(b) is one synchronous run: each use calls construct(),    *)
(* which runs to its first await and hands back a promise that use drops;   *)
(* what follows an await runs only after the chain has ended.               *)
(* QueueConstruct.construct is the code of constructs/queue; construct() of *)
(* DynamoDBConstruct, like that of any FW24Construct, either completes     *)
(* within the call or awaits once.                                         *)
(***************************************************************************)
\* Most use calls in one chain.
MaxUses == 2

\* Most modules of the application.
MaxModules == 2

\* dependencies: string[] = [DynamoDBConstruct.name]
Dependencies(construct) ==
    IF construct = "QueueConstruct" THEN {"DynamoDBConstruct"} ELSE {}

ConstructAt(pc, todo) == [pc |-> pc, todo |-> todo]

\* for (const [, module] of modules): up to the next module whose queues
\* directory is not '', whose queues are then awaited; done when none is left.
RECURSIVE LoadFrom(_)
LoadFrom(todo) ==
    IF todo = <<>> THEN ConstructAt("done", <<>>)
    ELSE IF Head(todo) # "" THEN ConstructAt("registerQueuesFromModule", Tail(todo))
    ELSE LoadFrom(Tail(todo))

\* QueueConstruct.construct after `await Helper.registerHandlers(...)`
AfterRegisterHandlers(mods) ==
    \* if (this.fw24.hasModules())
    IF mods # <<>> THEN LoadFrom(mods) ELSE ConstructAt("done", <<>>)

\* The states construct() can be in when its call returns.
Constructing(construct) ==
    IF construct = "QueueConstruct" THEN {ConstructAt("registerHandlers", <<>>)}
    ELSE {ConstructAt("done", <<>>), ConstructAt("awaiting", <<>>)}

\* The trace after construct() of the i-th construct went to state c.
Traced(log, i, c) ==
    IF c.pc = "done" THEN Append(log, <<"end", i>>) ELSE log

InitApp ==
    /\ chain \in SeqsUpTo({"QueueConstruct", "DynamoDBConstruct"}, MaxUses)
    /\ modules \in SeqsUpTo({"", "./src/queues"}, MaxModules)
    /\ used = 0
    /\ cst = [i \in 1..Len(chain) |-> ConstructAt("idle", <<>>)]
    /\ trace = <<>>
    /\ useReturned = <<>>
    /\ MailOff
    /\ schema = NoSchema
    /\ apc = "off"
    /\ accessPatterns = <<>>
    /\ HydrationOff
    /\ ExtractOff
    /\ OpsOff
    /\ ListOff
    /\ GetOff

\* The next use of the chain: stack.construct(this._fw24); return this.
Use ==
    /\ used < Len(chain)
    /\ \E c \in Constructing(chain[used + 1]) :
          /\ cst' = [cst EXCEPT ![used + 1] = c]
          /\ trace' = Traced(Append(trace, <<"begin", used + 1>>), used + 1, c)
    /\ used' = used + 1
    /\ useReturned' = Append(useReturned, "this")
    /\ UNCHANGED <<hvars, svars, evars, ovars, lvars, gvars, mvars, chain, modules>>

\* construct() of the i-th construct goes on after an await, to state c.
GoesOn(i, c) ==
    /\ cst' = [cst EXCEPT ![i] = c]
    /\ trace' = Traced(Append(trace, <<"step", i>>), i, c)
    /\ UNCHANGED <<hvars, svars, evars, ovars, lvars, gvars, mvars, chain, modules, used,
                   useReturned>>

\* Helper.registerHandlers resolves.
RegisterHandlersResolves(i) ==
    /\ used = Len(chain)
    /\ cst[i].pc = "registerHandlers"
    /\ GoesOn(i, AfterRegisterHandlers(modules))

\* Helper.registerQueuesFromModule resolves.
RegisterQueuesFromModuleResolves(i) ==
    /\ used = Len(chain)
    /\ cst[i].pc = "registerQueuesFromModule"
    /\ GoesOn(i, LoadFrom(cst[i].todo))

\* The await of a DynamoDBConstruct resolves.
ConstructResolves(i) ==
    /\ used = Len(chain)
    /\ cst[i].pc = "awaiting"
    /\ GoesOn(i, ConstructAt("done", <<>>))

\* An await rejects: the promise of construct() rejects, which nothing awaits.
ConstructRejects(i) ==
    /\ used = Len(chain)
    /\ cst[i].pc \in {"registerHandlers", "registerQueuesFromModule", "awaiting"}
    /\ cst' = [cst EXCEPT ![i] = ConstructAt("failed", <<>>)]
    /\ UNCHANGED <<hvars, svars, evars, ovars, lvars, gvars, mvars, chain, modules, used,
                   trace, useReturned>>

NextApp ==
    \/ Use
    \/ \E i \in 1..MaxUses : i <= Len(chain) /\ RegisterHandlersResolves(i)
    \/ \E i \in 1..MaxUses : i <= Len(chain) /\ RegisterQueuesFromModuleResolves(i)
    \/ \E i \in 1..MaxUses : i <= Len(chain) /\ ConstructResolves(i)
    \/ \E i \in 1..MaxUses : i <= Len(chain) /\ ConstructRejects(i)

SpecApp == InitApp /\ [][NextApp]_vars

(***************************************************************************)
(* Properties of hydration.                                                *)
(***************************************************************************)
Registered(r) == getEntityServiceByEntityName(options[r].entityName)

HasMeta(r) == cfg.relMeta[r].k = "relation"

\* The related service's get was called for relation r.
Fetched(r) == rpc[r] \in {"fetching", "merged", "rejected"}

\* The identifier mappings hydrateSingleRelation made of root record i's raw
\* relation value, none before it ran.
IdentifiersOf(r, i) == IF dict[r] = <<>> THEN <<>> ELSE dict[r][i]

\* Number of root records whose raw relation value yields an identifier mapping.
Referencing(r) == {i \in 1..Len(original) : dict[r] # <<>> /\ dict[r][i] # <<>>}

\* C1: for one top-level hydration over any list of root records, the related
\* service's get is called exactly once for each selected relation attribute
\* (one with a registered service and relation metadata), whatever the number of
\* root records referencing related records and whatever the duplicates.
C1_ExactlyOneFetchPerRelation ==
    hpc # "idle" =>
        \A r \in Selected : (Registered(r) /\ HasMeta(r)) => calls[r] = 1

\* The identifier mappings the root records reference through relation r, found
\* from the records as they were handed over.
ReferencedMappings(r) ==
    LET mappings == IdentifierMappings(cfg.relMeta[r].identifiers,
                                       getEntityPrimaryIdPropertyName(options[r].entityName))
        raws(i) == IF isArray(original[i][r]) THEN original[i][r].xs ELSE <<original[i][r]>>
    IN UNION { {ReduceIdentifiers(mappings, raws(i)[j], <<>>) :
                    j \in {j \in 1..Len(raws(i)) : Truthy(raws(i)[j])}} :
               i \in 1..Len(original) }

\* C2: the identifier batch passed to the related service's get holds every
\* identifier mapping some root record references, only such mappings, and no
\* two structurally equal ones; N root records referencing one and the same
\* related identifier give a batch of exactly one identifier.
C2_BatchCompleteAndDistinct ==
    \A r \in Selected : Fetched(r) =>
        /\ \A m \in ReferencedMappings(r) :
                \E j \in 1..Len(batch[r]) : SameMapping(batch[r][j], m)
        /\ \A j \in 1..Len(batch[r]) :
                \E m \in ReferencedMappings(r) : SameMapping(batch[r][j], m)
        /\ \A i, j \in 1..Len(batch[r]) :
                SameMapping(batch[r][i], batch[r][j]) => i = j
        /\ Cardinality(ReferencedMappings(r)) = 1 => Len(batch[r]) = 1

\* Several root records reference the same related identifier and the batch
\* sent is shorter than the list of references collected.
C2_Witness ==
    \E r \in Selected :
        /\ Fetched(r)
        /\ Cardinality(Referencing(r)) >= 2
        /\ Len(Flatten(dict[r])) > Len(batch[r])
        /\ Len(batch[r]) = 1

CustomerFields == [i \in 1..Len(records) |-> records[i].customer]

StatedOrder(n, c) ==
    [id |-> Num(n), customerId |-> Str(c), customer |-> Undef, seller |-> Undef]

\* The scenario's root records as the specification writes them.
StatedOrders == << StatedOrder("1", "c1"), StatedOrder("2", "c1"), StatedOrder("3", "c2") >>

NestedOrder(n, c) ==
    [id |-> Num(n), customerId |-> Undef, customer |-> CustomerIdObj(c), seller |-> Undef]

\* The same orders with the customer id inside the relation attribute's value.
NestedOrders == << NestedOrder("1", "c1"), NestedOrder("2", "c1"), NestedOrder("3", "c2") >>

Named(n) == Obj([name |-> Str(n)])

Customer(c, n) == Obj([id |-> Str(c), name |-> Str(n)])

C4_CardinalityPreserved ==
    \A r \in Selected : rpc[r] = "merged" =>
        \A i \in 1..Len(records) : isArray(records[i][r]) <=> isArray(original[i][r])

\* C5: when no service is registered for a selected relation's target entity
\* name, that relation's hydration throws, no fetch is issued for it, and the
\* error reaches the caller: hydrateRecords never resolves and get/list/query
\* never return normally, the rejection being ready to be delivered.
C5_UnregisteredServiceFails ==
    \A r \in Selected : (~Registered(r) /\ hpc # "idle") =>
        /\ rpc[r] = "threw"
        /\ err[r] = "NoService"
        /\ calls[r] = 0
        /\ hpc \in {"running", "failed"}
        /\ hpc = "running" => ENABLED HydrateRejects
        /\ caller \in {"awaiting", "rejected"}
        /\ (hpc = "failed" /\ caller = "awaiting") => ENABLED CallerRejects

\* The caller has received the error of a relation with no registered service.
C5_Witness ==
    /\ caller = "rejected"
    /\ \E r \in Selected : ~Registered(r) /\ err[r] = "NoService" /\ calls[r] = 0

\* C6: when relation metadata cannot be located on the root schema for a
\* selected attribute, its hydration only logs a warning: nothing is thrown, no
\* fetch is issued, the root records keep the attribute's value, and the
\* enclosing get/list/query is not rejected because of it.
C6_MissingMetadataOnlyWarns ==
    \A r \in Selected : (~HasMeta(r) /\ hpc # "idle") =>
        /\ rpc[r] = "warned"
        /\ err[r] = ""
        /\ calls[r] = 0
        /\ \A i \in 1..Len(records) : records[i][r] = original[i][r]
        /\ (Selected = {r}) => (hpc # "failed" /\ caller # "rejected")

\* The attribute names the related service's get requests for a selection.
Requested(r) == Range(FormattedSelections(options[r].entityName, selections[r]))

\* C7: every target identifier attribute used to look up related records is
\* part of the selection the related service's get works with, whether the
\* caller's relation selection is a list, a mapping, or not given.
C7_IdentifierAttributesSelected ==
    \A r \in Selected : Fetched(r) =>
        \A j \in 1..Len(batch[r]) : Range(KeysOf(batch[r][j])) \subseteq Requested(r)

MergedIn(recs, r) ==
    IF rpc[r] = "merged"
    THEN MergeRelatedEntities(recs, r, dict[r],
            RelatedGet(options[r].entityName, batch[r], selections[r]))
    ELSE recs

\* The root records with the merges done so far applied in one fixed order.
ExpectedRecords == MergedIn(MergedIn(original, "customer"), "seller")

\* C8: within one hydrate call every selected relation has run up to its fetch
\* before any fetch is waited for; hydrateRecords resolves only after every
\* relation's fetch has returned and been merged; and the root records are the
\* same whatever the order in which the fetches complete.
C8_ConcurrentFetchesJoin ==
    /\ hpc # "idle" => \A r \in Selected : rpc[r] # "idle"
    /\ hpc = "done" => \A r \in Selected : rpc[r] \in {"merged", "warned"}
    /\ records = ExpectedRecords

\* Two fetches completed in the reverse of the order they were started in, both
\* merged, and hydrateRecords resolved.
C8_Witness ==
    /\ hpc = "done"
    /\ completed = <<"seller", "customer">>
    /\ rpc["customer"] = "merged" /\ rpc["seller"] = "merged"
    /\ Len(records) >= 2
    /\ \E i \in 1..Len(records) :
            records[i].customer # original[i].customer /\ records[i].seller # original[i].seller

(***************************************************************************)
(* Properties of the access-pattern resolver.                              *)
(***************************************************************************)
\* C9: for every schema declaring at least one index and none literally named
\* "primary", the returned map has a "primary" entry whose attribute set equals
\* that of the first declared index; and for every schema the returned map has
\* a defined "primary" entry.
C9_PrimaryAccessPattern ==
    apc = "made" =>
        /\ ( /\ schema.indexes # <<>>
             /\ \A i \in 1..Len(schema.indexes) : schema.indexes[i].name # "primary" )
           => /\ MapHas(accessPatterns, "primary")
              /\ MapGet(accessPatterns, "primary")
                    = IndexAttributes(schema.indexes[1], schema)
        /\ MapHas(accessPatterns, "primary")
        /\ MapGet(accessPatterns, "primary") # Undef

\* pk then sk composite attributes, an attribute named twice kept where it is
\* first named.
RECURSIVE FirstOccurrences(_, _)
FirstOccurrences(xs, seen) ==
    IF xs = <<>> THEN <<>>
    ELSE IF Head(xs) \in seen THEN FirstOccurrences(Tail(xs), seen)
    ELSE <<Head(xs)>> \o FirstOccurrences(Tail(xs), seen \cup {Head(xs)})

\* C10: for every declared index, the resolved access pattern lists the
\* partition-key composite attributes followed by the sort-key composite
\* attributes, in declaration order, and every attribute entry in it carries
\* required = true.
C10_CompositeOrderAndRequired ==
    apc = "made" =>
        \A i \in 1..Len(schema.indexes) :
            LET index == schema.indexes[i]
                pattern == MapGet(accessPatterns, index.name)
            IN /\ KeysOf(pattern.entries)
                    = FirstOccurrences(index.pk \o SkComposite(index), {})
               /\ \A j \in 1..Len(pattern.entries) :
                    /\ "required" \in DOMAIN pattern.entries[j][2]
                    /\ pattern.entries[j][2]["required"] = Bool(TRUE)

(***************************************************************************)
(* Properties of identifier extraction.                                    *)
(***************************************************************************)
\* The input's records and the mappings returned for them, one by one.
InputElements == IF isArray(input) THEN input.xs ELSE <<input>>

OutputElements == IF isArray(xout) THEN xout.xs ELSE <<xout>>

\* The input is a record or a sequence of records.
RecordsGiven ==
    /\ input.k \in {"obj", "arr"}
    /\ \A i \in 1..Len(InputElements) : isObject(InputElements[i])

CompositeNames(index) == Range(index.pk) \cup Range(SkComposite(index))

IndexesNamed(n) == {i \in 1..Len(schema.indexes) : schema.indexes[i].name = n}

\* The attributes of the access pattern a name stands for: those of the index
\* of that name, and for "primary" without such an index those of the first
\* declared index.
NamedPatternAttributes(n) ==
    LET chosen == IF IndexesNamed(n) # {} THEN IndexesNamed(n)
                  ELSE IF n = "primary" /\ schema.indexes # <<>> THEN {1}
                  ELSE {}
    IN UNION {CompositeNames(schema.indexes[i]) : i \in chosen}

AllPatternAttributes ==
    UNION {CompositeNames(schema.indexes[i]) : i \in 1..Len(schema.indexes)}

\* The identifier attributes in scope of the call.
AttributesInScope ==
    IF Truthy(context.forAccessPattern)
    THEN NamedPatternAttributes(context.forAccessPattern.v)
    ELSE AllPatternAttributes

\* a is the schema's primary identifier attribute and rec has a generic id.
IdStandsFor(rec, a) ==
    Str(a) = PrimaryIdPropertyName(schema) /\ hasOwnProperty(rec, "id")

\* C11: for every input record and every identifier attribute a in scope, the
\* returned mapping has a = input[a] when the input carries a; otherwise, when a
\* is the schema's primary identifier attribute and the input carries a generic
\* id field, it has a = input.id; otherwise a is absent.  The mapping has no
\* other keys: {name:"a", id:"123"} with primary identifier attribute entityId
\* (the only attribute in scope) yields exactly {entityId:"123"}.
C11_FallbackToId ==
    xpc = "returned" =>
        /\ \A i \in 1..Len(InputElements) :
             LET rec == InputElements[i]
                 out == OutputElements[i]
             IN /\ \A a \in AttributesInScope :
                      IF hasOwnProperty(rec, a)
                      THEN MapHas(out, a) /\ MapGet(out, a) = rec.f[a]
                      ELSE IF IdStandsFor(rec, a)
                      THEN MapHas(out, a) /\ MapGet(out, a) = rec.f["id"]
                      ELSE ~MapHas(out, a)
                /\ Range(KeysOf(out.entries)) \subseteq AttributesInScope
        /\ ( /\ input = Obj([name |-> Str("a"), id |-> Str("123")])
             /\ PrimaryIdPropertyName(schema) = Str("entityId")
             /\ AttributesInScope = {"entityId"} )
           => xout = Identifiers(<< <<"entityId", Str("123")>> >>)

\* {name:"a", id:"123"} has been turned into {entityId:"123"}.
C11_Witness ==
    /\ xpc = "returned"
    /\ input = Obj([name |-> Str("a"), id |-> Str("123")])
    /\ xout = Identifiers(<< <<"entityId", Str("123")>> >>)

\* C12: when an identifier attribute of the access pattern in scope (each is
\* marked required by the pattern) is absent from an input record and the id
\* fallback does not apply, the extraction logs a warning for that attribute of
\* that record, does not throw, and returns the mapping without that key.
C12_MissingRequiredWarns ==
    (xpc # "idle" /\ RecordsGiven) =>
        \A i \in 1..Len(InputElements) : \A a \in AttributesInScope :
            (~hasOwnProperty(InputElements[i], a) /\ ~IdStandsFor(InputElements[i], a))
            => /\ xpc = "returned"
               /\ <<i, a>> \in Range(warned)
               /\ ~MapHas(OutputElements[i], a)

\* C13: the extraction throws when the input is missing (undefined, null, the
\* empty string) or is not object-shaped, and produces no result.
C13_BadInputThrows ==
    ( /\ xpc # "idle"
      /\ \/ input \in {Undef, Null, Str("")}
         \/ input.k \notin {"obj", "arr"} )
    => /\ xpc = "threw"
       /\ xerr = "InputRequired"
       /\ xout = Undef
       /\ warned = <<>>

\* A number was given and the extraction threw for it.
C13_Witness == xpc = "threw" /\ xerr = "InputRequired" /\ input = Num("5")

\* What the extraction returns for one record given alone.
AloneValue(rec) == extractEntityIdentifiers(schema, rec, context).value

\* C14: the result mirrors the input shape: a sequence of n records yields a
\* sequence of n identifier mappings, element i being what input element i
\* yields alone; a single record yields a single mapping, not a sequence.
C14_ShapeMirrored ==
    xpc = "returned" =>
        IF isArray(input)
        THEN /\ isArray(xout)
             /\ Len(xout.xs) = Len(input.xs)
             /\ \A i \in 1..Len(input.xs) :
                    /\ xout.xs[i].k = "identifiers"
                    /\ isObject(input.xs[i]) => xout.xs[i] = AloneValue(input.xs[i])
        ELSE xout.k = "identifiers"

\* A batch of two records gave two different mappings.
C14_Witness ==
    /\ xpc = "returned"
    /\ isArray(input) /\ Len(input.xs) = 2
    /\ xout.xs[1] # xout.xs[2]
    /\ xout.xs[1].entries # <<>> /\ xout.xs[2].entries # <<>>

\* C15: the keys of each returned mapping are among the attributes of the access
\* pattern named by context.forAccessPattern when it is given ("primary" standing
\* for the first declared index when no index is named primary), and among the
\* attributes of all access patterns together when it is not given.
C15_KeysWithinAccessPattern ==
    xpc = "returned" =>
        \A i \in 1..Len(OutputElements) :
            LET keys == Range(KeysOf(OutputElements[i].entries))
            IN /\ Truthy(context.forAccessPattern)
                    => keys \subseteq NamedPatternAttributes(context.forAccessPattern.v)
               /\ ~Truthy(context.forAccessPattern) => keys \subseteq AllPatternAttributes

\* "primary" was asked for on a schema without an index of that name, and an
\* attribute the input carries for another index was left out.
C15_Witness ==
    /\ xpc = "returned"
    /\ context.forAccessPattern = Str("primary")
    /\ IndexesNamed("primary") = {}
    /\ isObject(input) /\ hasOwnProperty(input, "entityId")
    /\ "entityId" \in AllPatternAttributes
    /\ xout = Identifiers(<< <<"tenantId", Str("t1")>> >>)

(***************************************************************************)
(* Properties of the ops schema.                                           *)
(***************************************************************************)
\* The ops schema has been built for the service.
OpsBuilt == entityOpsDefaultIoSchema # Undef

Ops == entityOpsDefaultIoSchema.value

DeclaredNames == {schema.attributes[i][1] : i \in 1..Len(schema.attributes)}

Declared(a) == SchemaAttribute(schema, a)

\* The attributes the schema marks hidden: true.
HiddenNames == {a \in DeclaredNames : Prop(Declared(a), "hidden") = Bool(TRUE)}

\* A flag is on unless the attribute sets it to false.
FlagOn(a, flag) == Prop(Declared(a), flag) # Bool(FALSE)

Names(map) == IF map = Undef THEN {} ELSE Range(MapKeys(map))

\* C16: an attribute marked hidden: true never appears in get.output,
\* list.output, create.input or update.input of the ops schema, whatever its
\* isVisible / isListable / isCreatable / isEditable flags are.
C16_HiddenNotProjected ==
    OpsBuilt =>
        \A a \in HiddenNames :
            /\ a \notin Names(Ops.get.output)
            /\ a \notin Names(Ops.list.output)
            /\ a \notin Names(Ops.create.input)
            /\ a \notin Names(Ops.update.input)

\* A hidden attribute with all four flags set to true was left out of an ops
\* schema that lists the other attribute everywhere.
C16_Witness ==
    /\ OpsBuilt
    /\ Declared("label") = [type |-> Str("string"), hidden |-> Bool(TRUE),
                            isVisible |-> Bool(TRUE), isListable |-> Bool(TRUE),
                            isCreatable |-> Bool(TRUE), isEditable |-> Bool(TRUE)]
    /\ Names(Ops.get.output) = {"entityId"}
    /\ Names(Ops.list.output) = {"entityId"}
    /\ Names(Ops.create.input) = {"entityId"}
    /\ Names(Ops.update.input) = {"entityId"}

\* C17: a hidden attribute is absent from every part of the ops schema: the
\* create and update inputs, the detail and list outputs, and the `by`
\* identifier sets of get, delete and update, also when the primary index is
\* keyed on a hidden attribute.
C17_HiddenNowhere ==
    OpsBuilt =>
        \A a \in HiddenNames :
            /\ a \notin Names(Ops.create.input)
            /\ a \notin Names(Ops.update.input)
            /\ a \notin Names(Ops.get.output)
            /\ a \notin Names(Ops.list.output)
            /\ a \notin Names(Ops.create.output.detail)
            /\ a \notin Names(Ops.create.output.list)
            /\ a \notin Names(Ops.update.output)
            /\ a \notin Names(Ops.get.by)
            /\ a \notin Names(Ops.delete.by)
            /\ a \notin Names(Ops.update.by)

C19_BuiltOnceAndCached ==
    /\ built <= 1
    /\ opsLog = <<>> => (built = 0 /\ ~OpsBuilt)
    /\ opsLog # <<>> => (built = 1 /\ OpsBuilt)
    /\ \A i \in 1..Len(opsLog) :
            /\ opsLog[i].ref = opsLog[1].ref
            /\ opsLog[i].ref = entityOpsDefaultIoSchema.ref

\* Each of the three getters has been called once and the schema built once.
C19_Witness ==
    /\ Len(opsLog) = 3
    /\ {opsLog[i].op : i \in 1..3}
         = {"getOpsDefaultIOSchema", "getDefaultSerializationAttributeNames",
            "getListingAttributeNames"}
    /\ built = 1

(***************************************************************************)
(* Properties of list.                                                     *)
(***************************************************************************)
\* What getListingAttributeNames() answers for the schema: the keys of the ops
\* schema's list output.
ListingNames == MapKeys(makeOpsDefaultIOSchema(schema).list.output)

\* list has gone past its resolution of the query.
ListCalled == called = "list" /\ lpc \in {"listing", "hydrating", "returned", "rejected"}

\* C20: list() called with no attributes selects exactly the attributes of
\* getListingAttributeNames(): the query listEntity receives and the query list
\* returns carry the resolved selection, a selection tree over exactly those
\* names and not the undefined that was given, and the returned records hold no
\* other attribute.
C20_ListDefaultsToListing ==
    (ListCalled /\ ~Truthy(given.attributes)) =>
        /\ passed.attributes.k = "tree"
        /\ KeysOf(passed.attributes.entries) = ListingNames
        /\ query.attributes = passed.attributes
        /\ lpc = "returned" =>
             /\ listed.query.attributes = passed.attributes
             /\ listed.query.attributes # given.attributes
             /\ \A i \in 1..Len(listed.data) :
                    DOMAIN listed.data[i].f = Range(ListingNames)

\* A list without attributes has returned hydrated records for a schema whose
\* listing attributes differ from its detail attributes.
C20_Witness ==
    /\ called = "list"
    /\ lpc = "returned"
    /\ given.attributes = Undef
    /\ ListingNames = <<"entityId", "name", "customer">>
    /\ MapKeys(makeOpsDefaultIOSchema(schema).get.output) = <<"entityId", "customer">>
    /\ KeysOf(listed.query.attributes.entries) = ListingNames
    /\ Len(listed.data) = 2
    /\ listed.hydrated

\* query has gone past its resolution of the query.
QueryCalled == called = "query" /\ lpc \in {"listing", "hydrating", "returned", "rejected"}

\* C21: query() has the selection contract of list(): the resolved selection,
\* which is query()'s selectAttributes (the listing attributes when none is
\* given, paths parsed and relations inferred), is the attributes of the query
\* handed to queryEntity and of the query returned in the result.
C21_QuerySelectionAsList ==
    QueryCalled =>
        /\ passed.attributes = selectAttributes
        /\ lpc = "returned" => listed.query.attributes = selectAttributes

\* The search-attribute list the search filter builder received, undefined when
\* no filter group was built.
BuilderAttributes(q) ==
    IF q.filters # Undef /\ q.filters.k = "and" THEN q.filters.group.attributes ELSE Undef

\* C22: for the same search and searchAttributes, query() passes to the search
\* filter builder the search-attribute list list() passes: the searchable
\* attributes by default when the caller's is absent or empty, the parsed names
\* when the caller gives a comma-separated string.
C22_SameSearchAttributes ==
    QueryCalled =>
        BuilderAttributes(passed) = BuilderAttributes(ListSearch(given, schema))

\* The terms a call made of a search string: the elements of query.search when
\* it has become a list, none otherwise.
Terms == IF isArray(passed.search)
         THEN [i \in 1..Len(passed.search.xs) |-> passed.search.xs[i].chars]
         ELSE <<>>

\* The characters of a string that are no delimiters, in order.
WithoutDelimiters(chars) == SelectSeq(chars, LAMBDA c : c \notin Delimiters)

\* The strings left of chars by taking white space, and nothing else, off its
\* two ends.
EndsStripped(chars) ==
    { SubSeq(chars, i, j) : i \in 1..(Len(chars) + 1), j \in 0..Len(chars) } \cap
    { SubSeq(chars, i, j) : i \in { n \in 1..(Len(chars) + 1) :
                                      \A m \in 1..(n - 1) : chars[m] \in Whitespace },
                            j \in { n \in 0..Len(chars) :
                                      \A m \in (n + 1)..Len(chars) : chars[m] \in Whitespace } }

SearchGiven == (ListCalled \/ QueryCalled) /\ isString(given.search)

\* What holds of the terms of a search string whatever the joined terms are:
\* each term is non-empty and free of delimiters, and with no term the search
\* adds no filter group: query.filters is as the caller gave it.
TermsWellFormed ==
    /\ \A i \in 1..Len(Terms) :
          /\ Terms[i] # <<>>
          /\ \A n \in 1..Len(Terms[i]) : Terms[i][n] \notin Delimiters
    /\ Terms = <<>> => passed.filters = given.filters

C23_NoTerms ==
    /\ SearchGiven
    /\ given.search = Text(<<" ", ",">>)
    /\ passed.search = Arr(<<>>)
    /\ passed.filters = given.filters

(***************************************************************************)
(* Properties of get.                                                      *)
(***************************************************************************)
\* get has settled otherwise than by a failure of the persistence collaborator
\* or of a related service's fetch.
GetSettled ==
    /\ gpc \in {"returned", "rejected"}
    /\ gpc = "rejected" => hpc = "failed"
    /\ \A r \in RelNames : err[r] # "Upstream"

\* The relation attributes of the resolved selection: those the schema declares
\* a relation for, with a registered service for its target.
SelectedRelations ==
    { r \in RelNames :
        /\ MapHas(formattedSelections, r)
        /\ isObject(MapGet(formattedSelections, r))
        /\ cfg.relMeta[r].k = "relation"
        /\ SchemaAttribute(schema, r).relation.entity.model.entity.v \in cfg.registry }

\* The value a hydrated single-valued relation attribute holds: a related
\* record, which is an object.
Hydrated(rec, r) == isObject(rec[r])

\* C24: get() with a batch of identifiers and a selection with a relation
\* attribute returns a batch each of whose records has that attribute hydrated,
\* as a get() with one identifier returns its record.
C24_BatchGetHydrated ==
    (GetSettled /\ isArray(getOptions.identifiers) /\ isArray(entity)
       /\ entity.xs # <<>> /\ SelectedRelations # {}) =>
        /\ gpc = "returned"
        /\ \A i \in 1..Len(entity.xs) : \A r \in SelectedRelations : Hydrated(entity.xs[i], r)

\* A get() with one identifier and the selection [id, customer.name] has
\* returned its record with the customer hydrated.
C24_SingleGetHydrated ==
    /\ gpc = "returned"
    /\ getOptions = [identifiers |-> OrderId("1"),
                     selections |-> Arr(<< <<"id">>, <<"customer", "name">> >>)]
    /\ entity.k = "one"
    /\ entity.rec["customer"] = Obj([id |-> Str("c1"), name |-> Str("Ann")])

\* The attributes with a nested selection that the schema declares no relation
\* for.
NestedPlain ==
    { r \in RelNames :
        /\ formattedSelections # Undef
        /\ MapHas(formattedSelections, r)
        /\ isObject(MapGet(formattedSelections, r))
        /\ cfg.relMeta[r].k # "relation" }

\* C25: get attempts hydration only for the selection entries with relation
\* metadata: a nested selection on an attribute the schema declares no relation
\* for causes no registry lookup, no fetch and no error, and get returns the
\* attribute as the plain field it is.
C25_OnlyRelationsHydrated ==
    \A r \in NestedPlain :
        /\ r \notin Selected
        /\ rpc[r] = "idle" /\ calls[r] = 0
        /\ (GetSettled /\ entity # Undef) =>
             /\ gpc = "returned"
             /\ entity.k = "one" => entity.rec[r] = GetStore(cfg)[1][r]

(***************************************************************************)
(* Properties of hydration over records that reference nothing.            *)
(***************************************************************************)
\* C26: hydrating a relation (registered service, relation metadata) over root
\* records none of which references a related record, the empty list of root
\* records among them, completes without error and issues no fetch.
C26_NothingReferencedIsHarmless ==
    \A r \in Selected :
        (rpc[r] # "idle" /\ Registered(r) /\ HasMeta(r)
           /\ \A i \in 1..Len(original) : IdentifiersOf(r, i) = <<>>) =>
            /\ rpc[r] # "threw"
            /\ err[r] = ""
            /\ calls[r] = 0

\* The related records a root record's relation attribute holds after the merge.
AssignedRecords(value) ==
    IF isArray(value) THEN SelectSeq(value.xs, isObject)
    ELSE IF isObject(value) THEN <<value>>
    ELSE <<>>

\* C27: after the merge, every related record assigned to a root record's
\* relation attribute is one that root record referenced: it carries the
\* identifier values of a non-empty identifier mapping resolved from that root
\* record's raw relation value.  A root record whose raw value yields no
\* identifier value is assigned no related record.
C27_AssignedWasReferenced ==
    \A r \in Selected :
        rpc[r] = "merged" =>
            \A i \in 1..Len(records) :
                \A n \in 1..Len(AssignedRecords(records[i][r])) :
                    \E j \in 1..Len(dict[r][i]) :
                        /\ dict[r][i][j] # <<>>
                        /\ Matches(AssignedRecords(records[i][r])[n], dict[r][i][j])

(***************************************************************************)
(* Properties of the IO-schema attributes.                                 *)
(***************************************************************************)
\* The validations an attribute declares, none when it declares none.
OwnValidations(a) ==
    IF Truthy(Prop(Declared(a), "validations")) THEN Declared(a)["validations"].xs ELSE <<>>

\* The validations of the IO-schema attribute made of attribute a.
IOValidations(a) == MapGet(Ops.get.output, a)["validations"].xs

\* C28: the IO-schema attribute entityAttributeToIOSchemaAttribute makes of an
\* attribute has `required` in its validations iff the attribute is declared
\* required, and has the attribute's own declared validations, unchanged.
C28_ValidationsCarried ==
    OpsBuilt =>
        \A a \in DeclaredNames :
            /\ Includes(IOValidations(a), Str("required"))
                 <=> Truthy(Prop(Declared(a), "required"))
            /\ SelectSeq(IOValidations(a), LAMBDA v : v # Str("required")) = OwnValidations(a)

(***************************************************************************)
(* Properties of the mail handler.                                         *)
(***************************************************************************)
\* What a record's body says, read off the body alone.
BodyValue(i) == event[i].body.value

HasEmailMessage(i) ==
    /\ event[i].body.k = "json"
    /\ isObject(BodyValue(i))
    /\ hasOwnProperty(BodyValue(i), "emailMessage")

IsTestRender(i) ==
    /\ event[i].body.k = "json"
    /\ isObject(BodyValue(i))
    /\ hasOwnProperty(BodyValue(i), "templateData")
    /\ Field(BodyValue(i).f.templateData, "testRenderEmailTemplate") = Bool(TRUE)

NoContent(i) ==
    LET m == BodyValue(i).f.emailMessage.f
    IN /\ m.TemplateName \in {Undef, Str("")}
       /\ m.Subject \in {Undef, Str("")} \/ m.Message \in {Undef, Str("")}

\* The record's processing failed: its body is no JSON or holds no email
\* message, or it is an email with neither a template nor subject and message,
\* or its send failed.
ProcessingFailed(i) ==
    \/ ~HasEmailMessage(i)
    \/ ~IsTestRender(i) /\ NoContent(i)
    \/ \E n \in 1..Len(sends) : sends[n].record = i /\ ~sends[n].ok

\* The message ids of the failed records among the first n, in record order.
RECURSIVE FailedIds(_)
FailedIds(n) ==
    IF n = 0 THEN <<>>
    ELSE IF ProcessingFailed(n) THEN Append(FailedIds(n - 1), event[n].messageId)
    ELSE FailedIds(n - 1)

\* C29: the handler attempts every record in order whatever became of the
\* earlier ones, does not throw, and returns as batchItemFailures exactly the
\* message ids of the records whose processing failed, each once and in record
\* order.
C29_FailuresReportedExactly ==
    /\ mpc \in {"idle", "sending", "returned"}
    /\ attempted = [i \in 1..Len(attempted) |-> i]
    /\ mpc = "returned" =>
         /\ attempted = [i \in 1..Len(event) |-> i]
         /\ response = FailedIds(Len(event))

\* The handler has returned from an event of three records: an unparsable one,
\* one that was sent, and one whose send failed.
C29_Witness ==
    /\ mpc = "returned"
    /\ Len(event) = 3
    /\ event[1].body = Malformed
    /\ sends = << Settled(2, "Simple", TRUE), Settled(3, "Template", FALSE) >>
    /\ response = <<1, 3>>

(***************************************************************************)
(* Properties of Application.use.                                          *)
(***************************************************************************)
\* construct() of the i-th construct had completed when the trace was n long.
CompletedBy(i, n) == \E q \in 1..n : trace[q] = <<"end", i>>

\* The constructs used before the i-th that it declares a dependency on.
DependsOn(i) == {j \in 1..(i - 1) : chain[j] \in Dependencies(chain[i])}

\* C30: with app.use(a).use(b), construct() of a has completed before
\* construct() of b begins, so no step that construct() of b takes after an
\* await runs before a construct it depends on has completed; and every use
\* returns the application.
C30_UseConstructsInOrder ==
    /\ \A p \in 1..Len(trace) :
          /\ trace[p][1] = "begin" =>
                \A i \in 1..(trace[p][2] - 1) : CompletedBy(i, p - 1)
          /\ trace[p][1] = "step" =>
                \A j \in DependsOn(trace[p][2]) : CompletedBy(j, p - 1)
    /\ \A n \in 1..Len(useReturned) : useReturned[n] = "this"
====
